---- MODULE Spec2Model ----
(***************************************************************************)
(* Verification model of the sophiathoth services: the knowledge base's    *)
(* in-process similarity ranking and its search route, and the semantic    *)
(* engine's embedding generation with its Redis cache.                     *)
(*                                                                         *)
(* Texts are sequences of one-character strings.  The embedding models     *)
(* (SentenceTransformer) are external: they are represented by Encode, a   *)
(* fixed deterministic map from a text to an integer vector.  A cosine     *)
(* similarity is kept exactly, as the signed square of the cosine          *)
(* (a fraction num/den) or as NaN when a norm is zero; the signed square   *)
(* is strictly monotone in the cosine, so comparisons and sort orders are  *)
(* those of the floating point values up to rounding.                      *)
(***************************************************************************)
EXTENDS Integers, Sequences, FiniteSets, TLC

\* ------------------------------------------------------------------ bounds
\* Length of the vectors the stand-in embedding model of the knowledge
\* base produces.
ModelDim == 2
\* Largest number of rows in knowledge_entries.
MaxEntries == 3
\* Largest number of rows in knowledge_entries when searches are checked.
MaxSearchEntries == 2
\* Largest limit a caller passes.
MaxLimit == 2
\* settings.EMBEDDING_DIMENSION, scaled down from 384 to keep vectors small.
D == 2
\* The clock runs from 0 to MaxClock seconds in steps of TickSeconds.
MaxClock == 3600
TickSeconds == 1800
\* Largest number of rows in the semantic engine's knowledge_base table.
MaxRows == 2
\* Largest number of rows in knowledge_categories.
MaxCategories == 2
\* Largest version an entry reaches.
MaxVersion == 2
\* Largest number of rows in knowledge_revisions when revisions are studied.
MaxRevisions == 4
\* Largest number of generate_embedding calls started when calls overlap.
MaxCalls == 3
\* Largest number of update requests started when updates overlap.
MaxUpdates == 3
\* Largest number of uploads requested.
MaxUploads == 2
\* Largest number of data rows in a generated sheet.
MaxDataRows == 2

\* ------------------------------------------------------------------- texts
\* None, as the value of a text field or argument
None == <<"<None>">>

\* NULL, as the value of an id column
NULL == "NULL"

\* str(None) as f-string interpolation renders it
NoneText == <<"N", "o", "n", "e">>

Render(t) == IF t = None THEN NoneText ELSE t

UpperCase ==
    <<"A", "B", "C", "D", "E", "F", "G", "H", "I", "J", "K", "L", "M",
      "N", "O", "P", "Q", "R", "S", "T", "U", "V", "W", "X", "Y", "Z">>

LowerCase ==
    <<"a", "b", "c", "d", "e", "f", "g", "h", "i", "j", "k", "l", "m",
      "n", "o", "p", "q", "r", "s", "t", "u", "v", "w", "x", "y", "z">>

\* str.lower() of one character
Lower(c) ==
    IF \E i \in 1..26 : UpperCase[i] = c
    THEN LowerCase[CHOOSE i \in 1..26 : UpperCase[i] = c]
    ELSE c

LowerText(t) == [i \in 1..Len(t) |-> Lower(t[i])]

\* `sub in text` for two str
HasSubstring(text, sub) ==
    \E i \in 1..(Len(text) - Len(sub) + 1) : SubSeq(text, i, i + Len(sub) - 1) = sub

Digits == <<"0", "1", "2", "3", "4", "5", "6", "7", "8", "9">>

IsDigit(c) == \E d \in 1..10 : Digits[d] = c

\* str(n) of an int n >= 0
RECURSIVE Decimal(_)
Decimal(n) ==
    IF n < 10 THEN <<Digits[n + 1]>>
    ELSE Decimal(n \div 10) \o <<Digits[(n % 10) + 1]>>

\* str.isdigit(): not empty and digits only
IsDigits(t) == t # <<>> /\ \A i \in 1..Len(t) : IsDigit(t[i])

\* int(t) of a str of digits
RECURSIVE ParseInt(_)
ParseInt(t) ==
    IF t = <<>> THEN 0
    ELSE 10 * ParseInt(SubSeq(t, 1, Len(t) - 1))
             + ((CHOOSE d \in 1..10 : Digits[d] = t[Len(t)]) - 1)

\* str.strip() for blanks
RECURSIVE Strip(_)
Strip(t) ==
    IF t = <<>> THEN t
    ELSE IF Head(t) = " " THEN Strip(Tail(t))
    ELSE IF t[Len(t)] = " " THEN Strip(SubSeq(t, 1, Len(t) - 1))
    ELSE t

\* a character that \w matches
IsWordChar(c) ==
    \/ c = "_"
    \/ IsDigit(c)
    \/ \E i \in 1..26 : UpperCase[i] = c \/ LowerCase[i] = c

\* re.search(r'\bword\b', text) for a word of word characters
HasWord(text, word) ==
    \E i \in 1..(Len(text) - Len(word) + 1) :
        /\ SubSeq(text, i, i + Len(word) - 1) = word
        /\ i = 1 \/ ~IsWordChar(text[i - 1])
        /\ i + Len(word) - 1 = Len(text) \/ ~IsWordChar(text[i + Len(word)])

\* ------------------------------------------------------------------- lists
\* the list without the later occurrences of a value
RECURSIVE Distinct(_)
Distinct(list) ==
    IF list = <<>> THEN <<>>
    ELSE LET front == Distinct(SubSeq(list, 1, Len(list) - 1))
             last == list[Len(list)]
         IN IF \E k \in 1..Len(front) : front[k] = last THEN front ELSE Append(front, last)

InList(list, v) == \E k \in 1..Len(list) : list[k] = v

\* ---------------------------------------------------------------- vectors
ZeroVec(n) == [i \in 1..n |-> 0]

\* The stand-in model is uncased; "a" and "b" are orthogonal directions,
\* "c" lies at cosine 0.6 from "a", every other character carries nothing.
CharVec(c, n) ==
    LET l == Lower(c) IN
    [i \in 1..n |->
        CASE l = "a" -> (IF i = 1 THEN 1 ELSE 0)
          [] l = "b" -> (IF i = 2 THEN 1 ELSE 0)
          [] l = "c" -> (IF i = 1 THEN 3 ELSE IF i = 2 THEN 4 ELSE 0)
          [] OTHER -> 0]

RECURSIVE Encode(_, _)
Encode(t, n) ==
    IF t = <<>> THEN ZeroVec(n)
    ELSE LET r == Encode(Tail(t), n)
             h == CharVec(Head(t), n)
         IN [i \in 1..n |-> h[i] + r[i]]

RECURSIVE DotUpTo(_, _, _)
DotUpTo(a, b, k) == IF k = 0 THEN 0 ELSE a[k] * b[k] + DotUpTo(a, b, k - 1)

Dot(a, b) == DotUpTo(a, b, Len(a))

\* ------------------------------------------------------------ similarities
NaN == [nan |-> TRUE, num |-> 0, den |-> 1]

Frac(n, d) == [nan |-> FALSE, num |-> n, den |-> d]

\* np.dot(a, b) / (np.linalg.norm(a) * np.linalg.norm(b)); 0/0 is nan
Cosine(a, b) ==
    LET d == Dot(a, b)
        n == Dot(a, a) * Dot(b, b)
    IN IF n = 0 THEN NaN
       ELSE Frac((IF d < 0 THEN 0 - d * d ELSE d * d), n)

\* float comparisons: every comparison with nan is False
SimGE(s, t) == ~s.nan /\ ~t.nan /\ s.num * t.den >= t.num * s.den

SimGT(s, t) == ~s.nan /\ ~t.nan /\ s.num * t.den > t.num * s.den

SimEQ(s, t) == ~s.nan /\ ~t.nan /\ s.num * t.den = t.num * s.den

\* ------------------------------------------------- knowledge base: entries
\* Inputs of the knowledge base's operations.
EntryTitles == {<<"a">>, <<"c">>, <<"b">>, <<"_">>}

Queries == {<<"a">>, <<"c">>}

Limits == 0..MaxLimit

\* thresholds 0.0, 0.6 and 0.7 (as signed squares of the cosine)
Thresholds == {Frac(0, 1), Frac(9, 25), Frac(49, 100)}

VARIABLES
    entries,        \* table knowledge_entries, in insertion order
    rankCall,       \* the response of the last request, if it was an in-process ranking
    now,            \* wall clock, seconds
    model_version,  \* EmbeddingService.model_version: the loaded model's dimension
    redis,          \* the semantic engine's Redis: key -> value with expiry
    knowledge_base, \* the semantic engine's table knowledge_base
    genLast,        \* the last call of EmbeddingService.generate_embedding
    firstOk,        \* per text: the first call that returned, and the model calls since
    engineCall,     \* the last call of EmbeddingService.find_similar_knowledge
    kbRedis,        \* the knowledge base's Redis (SemanticClient.redis)
    searchCall,     \* the last search request and its response
    knowledge_categories, \* table knowledge_categories, in insertion order
    tags_table,     \* table tags: the names, in insertion order
    knowledge_revisions   \* table knowledge_revisions, in insertion order

NoRankCall ==
    [done |-> FALSE, failed |-> FALSE, text |-> <<>>, limit |-> 0,
     threshold |-> Frac(0, 1), results |-> <<>>]

\* POST /entries/ : the row create_knowledge_entry commits
KnowledgeEntry(id, title, content, summary, source_type, category_id, tags) ==
    [id |-> id, title |-> title, content |-> content, summary |-> summary,
     source_type |-> source_type, category_id |-> category_id,
     is_active |-> TRUE, version |-> 1, tags |-> tags]

\* f"{entry['title']} {entry['summary']} {entry['content']}"
EntryText(e) == Render(e.title) \o <<" ">> \o Render(e.summary) \o <<" ">> \o Render(e.content)

\* ------------------------------------------- SemanticService (in process)
\* tuple comparison of (similarity, i): first the similarity, then the index
TupleLess(x, y) ==
    \/ SimGT(y.sim, x.sim)
    \/ SimEQ(x.sim, y.sim) /\ x.i < y.i

\* similarities.sort(reverse=True) on a list of distinct (similarity, i) tuples
RECURSIVE SortReverse(_)
SortReverse(S) ==
    IF S = {} THEN <<>>
    ELSE LET m == CHOOSE x \in S : \A y \in S \ {x} : TupleLess(y, x)
         IN <<m>> \o SortReverse(S \ {m})

\* the (similarity, i) tuples the scan appends
Similarities(text_embedding, cands, threshold) ==
    LET sim(i) == Cosine(text_embedding, Encode(EntryText(cands[i]), ModelDim))
    IN {[sim |-> sim(i), i |-> i] : i \in {j \in 1..Len(cands) : SimGE(sim(j), threshold)}}

TruncateNothing(s, limit) == s

\* similarities[:limit] for limit >= 0
Truncate(s, limit) == SubSeq(s, 1, IF limit < Len(s) THEN limit ELSE Len(s))

\* SemanticService.find_similar_knowledge, when no encode call raises
ServiceFindSimilar(text, cands, limit, threshold) ==
    LET top == Truncate(SortReverse(Similarities(Encode(text, ModelDim), cands, threshold)), limit)
    IN [k \in 1..Len(top) |->
           [id |-> cands[top[k].i].id, title |-> cands[top[k].i].title,
            summary |-> cands[top[k].i].summary, similarity |-> top[k].sim]]

\* ------------------------------------------- semantic engine: embeddings
\* A value that is not a str (None, a number).
NonString == <<"<non-string>">>

EngineTitles == {<<"a">>, <<"c">>}

EngineContents == {<<"_">>}

EngineTexts ==
    {<<>>, <<"a">>, <<"c">>}
        \cup {t \o <<" ">> \o c : t \in EngineTitles, c \in EngineContents}

\* ex=3600 in redis.set
CACHE_TTL == 3600

\* f"embedding:{hash(text)}".  hash() is taken within one interpreter process
\* and is assumed free of collisions on the texts in use.
CacheKey(text) == <<"embedding", text>>

CacheKeys == {CacheKey(t) : t \in EngineTexts \cup {NonString}}

Absent == [present |-> FALSE, value |-> <<>>, expires |-> 0]

RedisGetNothing(store, key, clock) == Absent

\* redis GET: a key past its expiry is gone
RedisGet(store, key, clock) ==
    IF store[key].present /\ clock < store[key].expires THEN store[key] ELSE Absent

\* redis SET key value EX ttl
RedisSet(store, key, value, ttl, clock) ==
    [store EXCEPT ![key] = [present |-> TRUE, value |-> value, expires |-> clock + ttl]]

\* json.dumps / json.loads of a list of floats
JsonDumps(v) == [json |-> v]

JsonLoads(s) == s.json

\* _preprocess_text: spaCy drops punctuation tokens (stop words and lemmas
\* are not distinguished by the stand-in model)
Preprocess(text) == SelectSeq(text, LAMBDA c : c # "_")

\* EmbeddingService.generate_embedding.  getFails, encodeFails and setFails
\* are the environment: the Redis GET, the model call and the Redis SET raise.
\* The result is what the call did: outcome, vector, the Redis contents after
\* it, and how often it called the model.
generate_embedding(text, store, clock, dim, getFails, encodeFails, setFails) ==
    LET key == CacheKey(text)
        cached == RedisGet(store, key, clock)
        embedding == Encode(Preprocess(text), dim)
        raised(why, calls) ==
            [outcome |-> "raised", why |-> why, vector |-> <<>>, store |-> store,
             hit |-> FALSE, attempts |-> calls]
    IN IF getFails THEN raised("cache", 0)
       ELSE IF cached.present
       THEN [outcome |-> "returned", why |-> "", vector |-> JsonLoads(cached.value),
             store |-> store, hit |-> TRUE, attempts |-> 0]
       ELSE IF text = NonString THEN raised("input", 0)
       ELSE IF encodeFails THEN raised("model", 1)
       ELSE IF setFails THEN raised("cache", 1)
       ELSE [outcome |-> "returned", why |-> "", vector |-> embedding,
             store |-> RedisSet(store, key, JsonDumps(embedding), CACHE_TTL, clock),
             hit |-> FALSE, attempts |-> 1]

\* The environment of one generate_embedding call: whether the Redis GET
\* raises, what the model would answer on each of three consecutive attempts
\* (TRUE: the attempt fails; the code makes the first attempt only), and
\* whether the Redis SET raises.
Env(g, e, st) == [getFails |-> g, encodeFails |-> e, setFails |-> st]

NoFault == Env(FALSE, <<FALSE, FALSE, FALSE>>, FALSE)

Envs ==
    {NoFault,
     Env(TRUE, <<FALSE, FALSE, FALSE>>, FALSE),
     Env(FALSE, <<TRUE, FALSE, FALSE>>, FALSE),
     Env(FALSE, <<TRUE, TRUE, TRUE>>, FALSE),
     Env(FALSE, <<FALSE, FALSE, FALSE>>, TRUE)}

NoGenCall ==
    [text |-> <<>>, outcome |-> "none", why |-> "", vector |-> <<>>, hit |-> FALSE,
     attempts |-> 0, at |-> 0, env |-> NoFault, wrote |-> FALSE]

NoFirst == [set |-> FALSE, vector |-> <<>>, at |-> 0, calls |-> 0]

\* bookkeeping of a generate_embedding call with result r
GenRecord(text, r, env) ==
    [text |-> text, outcome |-> r.outcome, why |-> r.why, vector |-> r.vector,
     hit |-> r.hit, attempts |-> r.attempts, at |-> now, env |-> env,
     wrote |-> r.store # redis]

FirstRecord(text, r) ==
    IF ~firstOk[text].set
    THEN IF r.outcome = "returned"
         THEN [firstOk EXCEPT ![text] =
                  [set |-> TRUE, vector |-> r.vector, at |-> now, calls |-> r.attempts]]
         ELSE firstOk
    ELSE IF now < firstOk[text].at + CACHE_TTL
         THEN [firstOk EXCEPT ![text].calls = @ + r.attempts]
         ELSE firstOk

NoEngineCall ==
    [done |-> FALSE, outcome |-> "none", why |-> "", text |-> <<>>, limit |-> 0,
     threshold |-> Frac(0, 1), rows |-> <<>>]

\* ------------------------------------------ knowledge base: search route
SearchQueries == {<<"a">>, <<"a", "_">>}

SearchLimits == {1, 2}

SearchOffsets == {0, 1}

\* a key that the filters dict does not hold
Unset == "<unset>"

\* The filters dict of a SearchRequest: the four keys the route reads, and
\* the key "tags" that a client may send (<<>>: the key is not sent).
Filters(category_id, source_type, is_active, tag) ==
    [category_id |-> category_id, source_type |-> source_type,
     is_active |-> is_active, tag |-> tag, tags |-> <<>>]

NoFilters == Filters(Unset, Unset, Unset, Unset)

\* {"tags": tags}, a key search_knowledge_post does not read
TagsFilter(tags) == [NoFilters EXCEPT !.tags = tags]

\* threshold=0.6 in search_knowledge_post
SEARCH_THRESHOLD == Frac(9, 25)

\* f"similar_knowledge:{hash(text)}:{limit}:{threshold}"
SimilarKey(text, limit, threshold) == <<"similar_knowledge", text, limit, threshold>>

SimilarKeys == {SimilarKey(q, l, SEARCH_THRESHOLD) : q \in SearchQueries, l \in SearchLimits}

Item(id, similarity) == [id |-> id, similarity |-> similarity]

\* What the POST to the semantic engine does: it answers 200 with a list of
\* results, or the call fails ("error_status": no connection, a timeout or
\* an error status; "bad_json": a body that is not JSON or holds no "results").
HttpOk(results) == [kind |-> "ok", results |-> results]

HttpFailure(kind) == [kind |-> kind, results |-> <<>>]

EngineAnswer == <<Item(2, Frac(81, 100)), Item(1, Frac(64, 100))>>

HttpOutcomes ==
    {HttpOk(EngineAnswer), HttpFailure("error_status"), HttpFailure("bad_json")}

SearchEnv(g, h, st) == [getFails |-> g, http |-> h, setFails |-> st]

SearchEnvs ==
    {SearchEnv(FALSE, h, FALSE) : h \in HttpOutcomes}
        \cup {SearchEnv(TRUE, HttpOk(EngineAnswer), FALSE),
              SearchEnv(FALSE, HttpOk(EngineAnswer), TRUE)}

\* SemanticClient.find_similar_knowledge of app/semantic.py: the cache read is
\* outside the try block, the POST and the cache write are inside it
ClientFindSimilar(text, limit, threshold, store, clock, env) ==
    LET key == SimilarKey(text, limit, threshold)
        cached == RedisGet(store, key, clock)
    IN IF env.getFails
       THEN [outcome |-> "raised", results |-> <<>>, store |-> store]
       ELSE IF cached.present
       THEN [outcome |-> "returned", results |-> JsonLoads(cached.value), store |-> store]
       ELSE IF env.http.kind # "ok" \/ env.setFails
       THEN [outcome |-> "returned", results |-> <<>>, store |-> store]
       ELSE [outcome |-> "returned", results |-> env.http.results,
             store |-> RedisSet(store, key, JsonDumps(env.http.results), CACHE_TTL, clock)]

\* titles and contents of the entries created
KbTitles == EntryTitles \cup {<<"A", "b">>}

KbContents == {<<"_">>, <<"a">>}

\* f"categorize:{hash(text)}"
CategorizeKey(text) == <<"categorize", text>>

CategorizeKeys == {CategorizeKey(t \o <<" ">> \o c) : t \in KbTitles, c \in KbContents}

\* {"category": ..., "confidence": ...}; the confidence in hundredths
Categorized(category, confidence) == [category |-> category, confidence |-> confidence]

Uncategorized == Categorized("uncategorized", 0)

\* category_result["confidence"] > 0.7, in hundredths
CATEGORY_CONFIDENCE == 70

\* the semantic engine cannot be reached
NoCategorizer == SearchEnv(FALSE, HttpFailure("error_status"), FALSE)

\* SemanticClient.categorize_text: as find_similar_knowledge, the cache read
\* is outside the try block, the POST and the cache write are inside it
ClientCategorize(text, store, clock, env) ==
    LET key == CategorizeKey(text)
        cached == RedisGet(store, key, clock)
    IN IF env.getFails
       THEN [outcome |-> "raised", result |-> Uncategorized, store |-> store]
       ELSE IF cached.present
       THEN [outcome |-> "returned", result |-> JsonLoads(cached.value), store |-> store]
       ELSE IF env.http.kind # "ok" \/ env.setFails
       THEN [outcome |-> "returned", result |-> Uncategorized, store |-> store]
       ELSE [outcome |-> "returned", result |-> env.http.results,
             store |-> RedisSet(store, key, JsonDumps(env.http.results), CACHE_TTL, clock)]

\* column ILIKE pattern: % is any run of characters, _ any one character,
\* letters compare without case
RECURSIVE Like(_, _)
Like(p, t) ==
    IF p = <<>> THEN t = <<>>
    ELSE IF Head(p) = "%"
    THEN Like(Tail(p), t) \/ (t # <<>> /\ Like(p, Tail(t)))
    ELSE /\ t # <<>>
         /\ Head(p) = "_" \/ Lower(Head(p)) = Lower(Head(t))
         /\ Like(Tail(p), Tail(t))

\* a NULL column matches no pattern
ILike(column, query) ==
    column # None /\ Like(<<"%">> \o query \o <<"%">>, column)

BasicMatch(e, query) ==
    ILike(e.title, query) \/ ILike(e.content, query) \/ ILike(e.summary, query)

\* the four query.filter(...) calls
PassesFilters(e, f) ==
    /\ f.category_id = Unset \/ e.category_id = f.category_id
    /\ f.source_type = Unset \/ e.source_type = f.source_type
    /\ f.is_active = Unset \/ (e.is_active <=> f.is_active = "true")
    /\ f.tag = Unset \/ \E k \in 1..Len(e.tags) : e.tags[k] = f.tag

\* Rows of the SELECT.  Without a tag filter it has one row per entry; with
\* one, query.join(KnowledgeEntry.tags) gives one row per row of knowledge_tags
\* that links the entry to the tag.  query.count() counts these rows and
\* offset/limit cut them; query.all() then returns each entity once.
RECURSIVE JoinedRows(_, _)
JoinedRows(rows, tag) ==
    IF tag = Unset \/ rows = <<>> THEN rows
    ELSE LET links == SelectSeq(Head(rows).tags, LAMBDA t : t = tag)
         IN [k \in 1..Len(links) |-> Head(rows)] \o JoinedRows(Tail(rows), tag)

\* query.offset(offset).limit(limit).all()
Page(rows, offset, limit) ==
    SubSeq(rows, offset + 1, IF offset + limit < Len(rows) THEN offset + limit ELSE Len(rows))

\* {item["id"]: item["similarity"] for item in similar_knowledge}.get(id, 0)
SimilarityOf(similar, id) ==
    LET hits == {k \in 1..Len(similar) : similar[k].id = id}
    IN IF hits = {} THEN Frac(0, 1)
       ELSE similar[CHOOSE k \in hits : \A j \in hits : j <= k].similarity

\* sorted(entries, key=..., reverse=True): descending, equal keys keep their order
RECURSIVE SortedBySimilarity(_, _)
SortedBySimilarity(rows, similar) ==
    IF rows = <<>> THEN <<>>
    ELSE LET best == CHOOSE k \in 1..Len(rows) :
                 /\ \A j \in 1..Len(rows) :
                       SimGE(SimilarityOf(similar, rows[k].id), SimilarityOf(similar, rows[j].id))
                 /\ \A j \in 1..(k - 1) :
                       SimGT(SimilarityOf(similar, rows[j].id), SimilarityOf(similar, rows[k].id))
                       \/ ~SimGE(SimilarityOf(similar, rows[j].id), SimilarityOf(similar, rows[k].id))
             rest == [j \in 1..(Len(rows) - 1) |-> IF j < best THEN rows[j] ELSE rows[j + 1]]
         IN <<rows[best]>> \o SortedBySimilarity(rest, similar)

Ids(rows) == [k \in 1..Len(rows) |-> rows[k].id]

ServerError == [status |-> 500, results |-> <<>>, total |-> 0]

\* HTTPException(404, "Knowledge entry not found")
NotFound == [status |-> 404, results |-> <<>>, total |-> 0]

\* The routes of the knowledge router, in the order of their declaration;
\* a path is the tuple of its segments after the prefix /entries.
PathParams == {"{entry_id}", "{attachment_id}"}

Route(method, path, endpoint) == [method |-> method, path |-> path, endpoint |-> endpoint]

ROUTES ==
    <<Route("POST", <<>>, "create_knowledge_entry"),
      Route("GET", <<>>, "get_knowledge_entries"),
      Route("GET", <<"{entry_id}">>, "get_knowledge_entry"),
      Route("PUT", <<"{entry_id}">>, "update_knowledge_entry"),
      Route("DELETE", <<"{entry_id}">>, "delete_knowledge_entry"),
      Route("POST", <<"{entry_id}", "attachments">>, "upload_attachment"),
      Route("GET", <<"{entry_id}", "attachments">>, "get_attachments"),
      Route("GET", <<"{entry_id}", "attachments", "{attachment_id}">>, "download_attachment"),
      Route("GET", <<"{entry_id}", "revisions">>, "get_revisions"),
      Route("GET", <<"search">>, "search_knowledge_get"),
      Route("POST", <<"search">>, "search_knowledge_post")>>

\* a route matches a request of its method whose path has its segments, a
\* parameter standing for any segment
Matches(route, method, path) ==
    /\ route.method = method
    /\ Len(route.path) = Len(path)
    /\ \A k \in 1..Len(path) : route.path[k] \in PathParams \/ route.path[k] = path[k]

\* the endpoint the router calls: that of the first route that matches
Dispatch(routes, method, path) ==
    LET hits == {k \in 1..Len(routes) : Matches(routes[k], method, path)}
    IN IF hits = {} THEN "not_found"
       ELSE routes[CHOOSE k \in hits : \A j \in hits : k <= j].endpoint

Ok(results, total) == [status |-> 200, results |-> results, total |-> total]

\* search_knowledge_post; `found` is what find_similar_knowledge did
SearchResponse(rows, query, limit, offset, f, found) ==
    IF found.outcome = "raised" THEN ServerError
    ELSE LET knowledge_ids == {found.results[k].id : k \in 1..Len(found.results)}
             selected(e) ==
                 /\ IF knowledge_ids # {} THEN e.id \in knowledge_ids
                    ELSE BasicMatch(e, query)
                 /\ PassesFilters(e, f)
             matching == JoinedRows(SelectSeq(rows, selected), f.tag)
             page == Distinct(Page(matching, offset, limit))
         IN IF Len(matching) = 0 THEN Ok(<<>>, 0)
            ELSE IF knowledge_ids # {}
            THEN Ok(Ids(SortedBySimilarity(page, found.results)), Len(matching))
            ELSE Ok(Ids(page), Len(matching))

NoSearchCall ==
    [done |-> FALSE, method |-> "POST", query |-> <<>>, limit |-> 0, offset |-> 0,
     filters |-> NoFilters,
     env |-> SearchEnv(FALSE, HttpFailure("error_status"), FALSE), hit |-> FALSE,
     semantic |-> "none", similar |-> <<>>, response |-> Ok(<<>>, 0)]

\* ------------------------------------------ document processor: parser
VARIABLES
    minio,            \* object storage: the files uploaded, in upload order
    tender_documents, \* table tender_documents, in insertion order
    tender_sheets,    \* table tender_sheets
    tender_questions, \* table tender_questions
    parseCall         \* the last call of ExcelParser.parse_and_save

\* A cell value or a column label as pandas hands it over: a str or an int.
Str(s) == [isnum |-> FALSE, s |-> s, n |-> 0]

Num(n) == [isnum |-> TRUE, s |-> <<>>, n |-> n]

\* what df.fillna('') puts into a missing cell
EmptyCell == Str(<<>>)

\* bool(v): '' and 0 are false
Truthy(v) == IF v.isnum THEN v.n # 0 ELSE v.s # <<>>

\* v if it is a str, else str(v)
PyStr(v) == IF v.isnum THEN Decimal(v.n) ELSE v.s

\* A sheet: its name, its column labels (df.columns, made unique by pandas)
\* and its data rows, each a tuple of cells in the order of the labels.
Sheet(name, headers, rows) == [name |-> name, headers |-> headers, rows |-> rows]

\* row.get(key, ''): the labels of a sheet are unique
CellAt(sheet, row, key) ==
    IF InList(sheet.headers, key)
    THEN sheet.rows[row][CHOOSE c \in 1..Len(sheet.headers) : sheet.headers[c] = key]
    ELSE EmptyCell

QUESTION == <<"q", "u", "e", "s", "t", "i", "o", "n">>

QUESTION_WORDS == {QUESTION, <<"q", "u", "e", "r", "y">>, <<"p", "r", "o", "m", "p", "t">>}

ANSWER_WORDS ==
    {<<"a", "n", "s", "w", "e", "r">>, <<"r", "e", "s", "p", "o", "n", "s", "e">>,
     <<"r", "e", "p", "l", "y">>}

\* col_name = str(col_key).lower() holds one of the question words
NamesQuestion(key) == \E w \in QUESTION_WORDS : HasSubstring(LowerText(PyStr(key)), w)

\* the elif branch: reached only when the label names no question
NamesAnswer(key) ==
    ~NamesQuestion(key) /\ \E w \in ANSWER_WORDS : HasSubstring(LowerText(PyStr(key)), w)

FirstOf(S) == CHOOSE c \in S : \A d \in S : c <= d

LastOf(S) == CHOOSE c \in S : \A d \in S : d <= c

\* question_col after the loop over first_row.keys(): no break, so every
\* matching label overwrites the one before; 0 stands for None
QuestionCol(headers) ==
    LET found == {c \in 1..Len(headers) : NamesQuestion(headers[c])}
    IN IF found = {} THEN 0 ELSE LastOf(found)

AnswerCol(headers) ==
    LET found == {c \in 1..Len(headers) : NamesAnswer(headers[c])}
    IN IF found = {} THEN 0 ELSE LastOf(found)

\* an element of `questions`; answer_column is set by the structured phase
\* only (here: the label, or NoColumn)
NoColumn == Str(<<"<none>">>)

Candidate(sheet, row, column, answer_column, text, context) ==
    [sheet |-> sheet, row |-> row, column |-> column, answer_column |-> answer_column,
     text |-> text, context |-> context]

\* 1, 2, ..., n
UpTo(n) == [i \in 1..n |-> i]

\* the structured phase for one sheet (rows are counted from 0)
StructuredCandidates(sheet) ==
    LET q == QuestionCol(sheet.headers)
        a == AnswerCol(sheet.headers)
    IN IF Len(sheet.rows) = 0 \/ q = 0 \/ a = 0 THEN <<>>
       ELSE IF ~Truthy(sheet.headers[q]) \/ ~Truthy(sheet.headers[a]) THEN <<>>
       ELSE LET kept == SelectSeq(UpTo(Len(sheet.rows)),
                                  LAMBDA r : Truthy(sheet.rows[r][q]))
            IN [k \in 1..Len(kept) |->
                   Candidate(sheet.name, kept[k] - 1, sheet.headers[q], sheet.headers[a],
                             PyStr(sheet.rows[kept[k]][q]), PyStr(sheet.rows[kept[k]][a]))]

\* cell_value.strip().endswith('?') or re.search(r'\bquestion\b', cell_value.lower())
LooksLikeQuestion(text) ==
    \/ Strip(text) # <<>> /\ Strip(text)[Len(Strip(text))] = "?"
    \/ HasWord(LowerText(text), QUESTION)

NO_ANSWER == <<"No answer found">>

\* answer_text after the look to the right, which is made for an int label
\* only and finds the label one higher
RightAnswer(sheet, r, c) ==
    LET key == sheet.headers[c]
    IN IF key.isnum /\ InList(sheet.headers, Num(key.n + 1))
       THEN CellAt(sheet, r, Num(key.n + 1))
       ELSE EmptyCell

\* answer_text after the look below, made when answer_text is still false
AdjacentAnswer(sheet, r, c) ==
    IF ~Truthy(RightAnswer(sheet, r, c)) /\ r < Len(sheet.rows)
    THEN sheet.rows[r + 1][c]
    ELSE RightAnswer(sheet, r, c)

FallbackContext(sheet, r, c) ==
    IF PyStr(AdjacentAnswer(sheet, r, c)) # <<>>
    THEN PyStr(AdjacentAnswer(sheet, r, c))
    ELSE NO_ANSWER

\* the fallback scan of one sheet: its cells row by row, left to right
FallbackCandidates(sheet) ==
    LET cols == Len(sheet.headers)
        cells == [k \in 1..(Len(sheet.rows) * cols) |->
                     <<((k - 1) \div cols) + 1, ((k - 1) % cols) + 1>>]
        kept == SelectSeq(cells, LAMBDA at : LooksLikeQuestion(PyStr(sheet.rows[at[1]][at[2]])))
    IN [k \in 1..Len(kept) |->
           Candidate(sheet.name, kept[k][1] - 1, sheet.headers[kept[k][2]], NoColumn,
                     PyStr(sheet.rows[kept[k][1]][kept[k][2]]),
                     FallbackContext(sheet, kept[k][1], kept[k][2]))]

RECURSIVE AllStructured(_)
AllStructured(sheets) ==
    IF sheets = <<>> THEN <<>>
    ELSE StructuredCandidates(Head(sheets)) \o AllStructured(Tail(sheets))

RECURSIVE AllFallback(_)
AllFallback(sheets) ==
    IF sheets = <<>> THEN <<>>
    ELSE FallbackCandidates(Head(sheets)) \o AllFallback(Tail(sheets))

ExtractQuestionsSkipping(sheets) ==
    AllStructured(sheets)
        \o AllFallback(SelectSeq(sheets, LAMBDA sh : StructuredCandidates(sh) = <<>>))

\* ExcelParser._extract_questions.  The `continue` that follows the
\* structured phase is the last statement of its loop body, so it skips
\* nothing: the second loop scans every sheet.
ExtractQuestions(sheets) == AllStructured(sheets) \o AllFallback(sheets)

\* ExcelParser._get_structure
Structure(sheets) ==
    [k \in 1..Len(sheets) |->
        [name |-> sheets[k].name, row_count |-> Len(sheets[k].rows),
         headers |-> sheets[k].headers]]

\* File bytes: a workbook pandas can read, or bytes pd.read_excel raises on.
Workbook(sheets) == [ok |-> TRUE, sheets |-> sheets]

Unreadable == [ok |-> FALSE, sheets |-> <<>>]

\* ExcelParser.parse_excel_file
parse_excel_file(file_content) ==
    IF ~file_content.ok
    THEN [outcome |-> "raised", sheets |-> <<>>, questions |-> <<>>, structure |-> <<>>]
    ELSE [outcome |-> "returned", sheets |-> file_content.sheets,
          questions |-> ExtractQuestions(file_content.sheets),
          structure |-> Structure(file_content.sheets)]

ColumnIndexByPosition(column, headers) ==
    IF InList(headers, column)
    THEN FirstOf({c \in 1..Len(headers) : headers[c] = column}) - 1
    ELSE 0

\* The int parse_and_save stores as column_index: an int label itself, the
\* value of a label of digits, else the label's first position in the
\* sheet's headers counted from 0, else 0.
ColumnIndex(column, headers) ==
    IF column.isnum THEN column.n
    ELSE IF IsDigits(column.s) THEN ParseInt(column.s)
    ELSE IF InList(headers, column)
         THEN FirstOf({c \in 1..Len(headers) : headers[c] = column}) - 1
    ELSE 0

\* the context stored for a candidate whose own context is empty
ContextOf(q) ==
    IF q.context # <<>> THEN q.context
    ELSE <<"From sheet: ">> \o q.sheet \o <<", row: ">> \o Decimal(q.row)
             \o <<", column: ">> \o PyStr(q.column)

TenderDocument(id, storage_path, file_content, sheet_count) ==
    [id |-> id, storage_path |-> storage_path, content |-> file_content,
     sheet_count |-> sheet_count]

\* an object of the bucket: its name and its bytes
StoredObject(name, data) == [name |-> name, data |-> data]

TenderSheet(document_id, name, row_count, headers) ==
    [document_id |-> document_id, name |-> name, row_count |-> row_count,
     column_count |-> Len(headers), headers |-> headers]

TenderQuestion(document_id, sheet, text, row_index, column_index, context) ==
    [document_id |-> document_id, sheet |-> sheet, text |-> text,
     row_index |-> row_index, column_index |-> column_index, context |-> context]

HeadersOf(structure, name) ==
    LET found == {k \in 1..Len(structure) : structure[k].name = name}
    IN IF found = {} THEN <<>> ELSE structure[FirstOf(found)].headers

\* the rows the session holds at db.commit()
SheetRows(document_id, structure) ==
    [k \in 1..Len(structure) |->
        TenderSheet(document_id, structure[k].name, structure[k].row_count,
                    structure[k].headers)]

QuestionRows(document_id, parsed) ==
    [k \in 1..Len(parsed.questions) |->
        TenderQuestion(document_id, parsed.questions[k].sheet, parsed.questions[k].text,
                       parsed.questions[k].row,
                       ColumnIndex(parsed.questions[k].column,
                                   HeadersOf(parsed.structure, parsed.questions[k].sheet)),
                       ContextOf(parsed.questions[k]))]

\* What the collaborators of one upload do: the object store may refuse the
\* upload and the database may refuse the commit.
UploadEnv(uploadFails, commitFails) == [uploadFails |-> uploadFails, commitFails |-> commitFails]

Stored == <<minio, tender_documents, tender_sheets, tender_questions>>

NoParseCall ==
    [called |-> FALSE, calls |-> 0, file |-> Unreadable, env |-> UploadEnv(FALSE, FALSE),
     outcome |-> "none", parsed |-> parse_excel_file(Unreadable),
     before |-> <<<<>>, <<>>, <<>>, <<>>>>]

VARIABLES
    question_embeddings, \* the semantic engine's table question_embeddings
    response_embeddings, \* the semantic engine's table response_embeddings
    createCall           \* the last call of one of EmbeddingService.create_*

embeddingVars == <<question_embeddings, response_embeddings, createCall>>

VARIABLES
    gen,        \* per caller: where its generate_embedding call stands
    modelCalls, \* per text: how often self.model.encode ran for it
    started     \* generate_embedding calls started step by step

genVars == <<gen, modelCalls, started>>

\* the request threads that may be inside generate_embedding at once
Callers == {1, 2}

OverlapTexts == {<<"a">>, <<"c">>}

\* a caller outside generate_embedding
Idle == [pc |-> "idle", text |-> <<>>, missed |-> FALSE, vector |-> <<>>]

\* a row of question_embeddings
QuestionEmbedding(question_id, text, embedding, version) ==
    [question_id |-> question_id, text |-> text, embedding |-> embedding,
     model_version |-> version]

\* a row of response_embeddings
ResponseEmbedding(response_id, text, embedding, version) ==
    [response_id |-> response_id, text |-> text, embedding |-> embedding,
     model_version |-> version]

NoCreateCall == [fn |-> "none", text |-> <<>>, outcome |-> "none", vector |-> <<>>]

\* what a create_* call hands back: generate_embedding's exception, which
\* none of the three catches, or the row built around the returned vector
CreateRecord(fn, text, r) ==
    [fn |-> fn, text |-> text, outcome |-> r.outcome, vector |-> r.vector]

dpVars == <<minio, tender_documents, tender_sheets, tender_questions, parseCall>>

VARIABLES
    sessions,        \* per request thread: its update_knowledge_entry in progress
    categories_made  \* rows ever inserted into knowledge_categories

requestVars == <<sessions>>

kbTables == <<knowledge_categories, tags_table, knowledge_revisions, categories_made>>

\* the request threads of the knowledge base
Requests == {1, 2}

\* a thread with no update in progress
NoSession == [pc |-> "idle", entry_id |-> 0, update |-> <<>>, loaded |-> <<>>]

kbVars == <<entries, rankCall, kbRedis, searchCall, kbTables, requestVars>>

engineVars ==
    <<now, model_version, redis, knowledge_base, genLast, firstOk, engineCall,
      embeddingVars, genVars>>

vars == <<entries, rankCall, now, model_version, redis, knowledge_base, genLast,
          firstOk, engineCall, kbRedis, searchCall, kbTables, dpVars, embeddingVars, genVars, requestVars>>

Init ==
    /\ entries = <<>>
    /\ rankCall = NoRankCall
    /\ now = 0
    /\ model_version \in {D, D + 1}
    /\ redis = [k \in CacheKeys |-> Absent]
    /\ knowledge_base = <<>>
    /\ genLast = NoGenCall
    /\ firstOk = [t \in EngineTexts \cup {NonString} |-> NoFirst]
    /\ engineCall = NoEngineCall
    /\ kbRedis = [k \in SimilarKeys \cup CategorizeKeys |-> Absent]
    /\ searchCall = NoSearchCall
    /\ knowledge_categories = <<>>
    /\ minio = <<>>
    /\ tender_documents = <<>>
    /\ tender_sheets = <<>>
    /\ tender_questions = <<>>
    /\ parseCall = NoParseCall
    /\ tags_table = <<>>
    /\ knowledge_revisions = <<>>
    /\ question_embeddings = <<>>
    /\ response_embeddings = <<>>
    /\ createCall = NoCreateCall
    /\ gen = [p \in Callers |-> Idle]
    /\ modelCalls = [t \in OverlapTexts |-> 0]
    /\ started = 0
    /\ sessions = [p \in Requests |-> NoSession]
    /\ categories_made = 0

\* ---------------------------------------------------------------- actions
\* ids the database generates for categories (generate_uuid), in creation order
CategoryIdPool == <<"k1", "k2", "k3", "k4">>

CategoryIds == {knowledge_categories[k].id : k \in 1..Len(knowledge_categories)}

KnowledgeCategory(id, name, parent_id) == [id |-> id, name |-> name, parent_id |-> parent_id]

KnowledgeRevision(knowledge_id, version, title, content, summary) ==
    [knowledge_id |-> knowledge_id, version |-> version, title |-> title,
     content |-> content, summary |-> summary]

\* the tags table after `Tag(name=tag_name)` for every name not yet in it.
\* A request names a tag by its name; tag ids (uuid4 strings) are taken to
\* differ from every name in use.
WithTags(table, names) ==
    table \o SelectSeq(Distinct(names), LAMBDA n : ~InList(table, n))

AddRevisionOverLast(revisions, revision) ==
    IF revisions = <<>> THEN <<revision>>
    ELSE [revisions EXCEPT ![Len(revisions)] = revision]

\* `db.add(db_revision)` and the commit: one more row in knowledge_revisions
AddRevision(revisions, revision) == Append(revisions, revision)

\* POST /entries/ (create_knowledge_entry).  `env` is what categorize_text
\* meets when the request names no category.
CreateEntry(title, content, summary, source_type, category_id, tags, env) ==
    LET found == ClientCategorize(title \o <<" ">> \o content, kbRedis, now, env)
        auto == /\ category_id = NULL
                /\ found.outcome = "returned"
                /\ found.result.category # "uncategorized"
                /\ found.result.confidence > CATEGORY_CONFIDENCE
        known == {k \in 1..Len(knowledge_categories) :
                     knowledge_categories[k].name = found.result.category}
        fresh == CategoryIdPool[categories_made + 1]
        assigned == IF ~auto THEN category_id
                    ELSE IF known # {} THEN knowledge_categories[CHOOSE k \in known : TRUE].id
                    ELSE fresh
    IN /\ Len(entries) < MaxEntries
       /\ category_id = NULL \/ category_id \in CategoryIds
       /\ auto /\ known = {} =>
              /\ Len(knowledge_categories) < MaxCategories
              /\ categories_made < Len(CategoryIdPool)
       /\ entries' = Append(entries,
              KnowledgeEntry(Len(entries) + 1, title, content, summary, source_type,
                             assigned, Distinct(tags)))
       /\ tags_table' = WithTags(tags_table, tags)
       /\ knowledge_categories' =
              IF auto /\ known = {}
              THEN Append(knowledge_categories,
                          KnowledgeCategory(fresh, found.result.category, NULL))
              ELSE knowledge_categories
       /\ categories_made' = IF auto /\ known = {} THEN categories_made + 1
                             ELSE categories_made
       /\ knowledge_revisions' =
              AddRevision(knowledge_revisions,
                          KnowledgeRevision(Len(entries) + 1, 1, title, content, summary))
       /\ kbRedis' = IF category_id = NULL THEN found.store ELSE kbRedis
       /\ rankCall' = NoRankCall
       /\ searchCall' = NoSearchCall
       /\ UNCHANGED <<engineVars, dpVars, requestVars>>

\* a field of KnowledgeEntryUpdate: <<>> when the request leaves it out
\* (None), <<v>> when it gives v
Given(opt, current) == IF opt = <<>> THEN current ELSE opt[1]

KnowledgeEntryUpdate(category_id, title, content, summary, is_active, tags) ==
    [category_id |-> category_id, title |-> title, content |-> content,
     summary |-> summary, is_active |-> is_active, tags |-> tags]

\* The rows of knowledge_tags of an entry after a flush: the unit of work
\* compares the collection with what it held at the last flush, leaves the
\* rows of the tags that stay, deletes those of the tags that went and
\* inserts one row per member that is new, knowledge_tags having no key that
\* would refuse a second row for the same tag.
Flushed(committed, current) ==
    SelectSeq(committed, LAMBDA t : InList(current, t))
        \o SelectSeq(current, LAMBDA t : ~InList(committed, t))

\* `db_entry.tags = []` and the loop over the names of the request: a tag not
\* yet in the tags table is created and the session flushed, then the tag is
\* appended (there is no `if tag not in db_entry.tags` here).  Sessions are
\* made with autoflush=False, as in the document processor's app/database.py,
\* so nothing else is written before the commit.
RECURSIVE LinkTags(_, _, _, _)
LinkTags(names, table, committed, current) ==
    IF names = <<>> THEN Flushed(committed, current)
    ELSE IF InList(table, Head(names))
    THEN LinkTags(Tail(names), table, committed, Append(current, Head(names)))
    ELSE LinkTags(Tail(names), Append(table, Head(names)),
                  Flushed(committed, current), Append(current, Head(names)))

\* rows of knowledge_tags of an entry after update_knowledge_entry's commit
RelinkedTags(rows, names, table) == LinkTags(names, table, rows, <<>>)

\* PUT /entries/{entry_id} (update_knowledge_entry)
UpdateEntry(entry_id, update) ==
    /\ entry_id \in 1..Len(entries)
    /\ IF update.category_id = <<>> THEN TRUE ELSE update.category_id[1] \in CategoryIds
    /\ LET e == entries[entry_id]
           changed ==
               [e EXCEPT !.category_id = Given(update.category_id, @),
                         !.title = Given(update.title, @),
                         !.content = Given(update.content, @),
                         !.summary = Given(update.summary, @),
                         !.is_active = Given(update.is_active, @),
                         !.tags = IF update.tags = <<>> THEN @
                                  ELSE RelinkedTags(@, update.tags[1], tags_table),
                         !.version = @ + 1]
       IN /\ entries' = [entries EXCEPT ![entry_id] = changed]
          /\ tags_table' = IF update.tags = <<>> THEN tags_table
                           ELSE WithTags(tags_table, update.tags[1])
          /\ knowledge_revisions' =
                 AddRevision(knowledge_revisions,
                             KnowledgeRevision(entry_id, changed.version, changed.title,
                                               changed.content, changed.summary))
    /\ rankCall' = NoRankCall
    /\ searchCall' = NoSearchCall
    /\ UNCHANGED <<knowledge_categories, categories_made, kbRedis, engineVars, dpVars,
                   requestVars>>

\* ------------------------------------------------------------ categories
\* the row of knowledge_categories with this id
CategoryRow(id) ==
    knowledge_categories[CHOOSE k \in 1..Len(knowledge_categories) :
                             knowledge_categories[k].id = id]

CategoryNames == {knowledge_categories[k].name : k \in 1..Len(knowledge_categories)}

\* the foreign key knowledge_categories.parent_id -> knowledge_categories.id,
\* checked by the database when the row is written
ParentKeyHolds(parent_id) == parent_id = NULL \/ parent_id \in CategoryIds

\* POST /categories/ (create_category): 400 for a name in use, 404 for a
\* parent that does not exist; a parent_id that is falsy but not None is
\* not looked up and is refused by the foreign key at the commit
CreateCategory(name, parent_id) ==
    /\ Len(knowledge_categories) < MaxCategories
    /\ categories_made < Len(CategoryIdPool)
    /\ name \notin CategoryNames
    /\ ParentKeyHolds(parent_id)
    /\ knowledge_categories' =
           Append(knowledge_categories,
                  KnowledgeCategory(CategoryIdPool[categories_made + 1], name, parent_id))
    /\ categories_made' = categories_made + 1
    /\ rankCall' = NoRankCall
    /\ searchCall' = NoSearchCall
    /\ UNCHANGED <<entries, tags_table, knowledge_revisions, kbRedis, engineVars, dpVars,
                   requestVars>>

\* PUT /categories/{category_id} (update_category): 404 for an unknown
\* category, 400 for the name of another category, 400 when the new parent
\* is the category itself, 404 when the new parent does not exist
UpdateCategory(category_id, name, parent_id) ==
    /\ category_id \in CategoryIds
    /\ name # CategoryRow(category_id).name => name \notin CategoryNames
    /\ parent_id # NULL /\ parent_id # CategoryRow(category_id).parent_id =>
           parent_id # category_id
    /\ ParentKeyHolds(parent_id)
    /\ knowledge_categories' =
           [k \in 1..Len(knowledge_categories) |->
               IF knowledge_categories[k].id = category_id
               THEN KnowledgeCategory(category_id, name, parent_id)
               ELSE knowledge_categories[k]]
    /\ rankCall' = NoRankCall
    /\ searchCall' = NoSearchCall
    /\ UNCHANGED <<entries, tags_table, knowledge_revisions, categories_made, kbRedis,
                   engineVars, dpVars, requestVars>>

\* the rows of knowledge_categories whose parent is `id`
ChildrenOf(id) == SelectSeq(knowledge_categories, LAMBDA c : c.parent_id = id)

\* `db_category.entries`
EntriesOf(id) == SelectSeq(entries, LAMBDA e : e.category_id = id)

DeleteCategoryWithEntries(category_id) ==
    /\ category_id \in CategoryIds
    /\ ChildrenOf(category_id) = <<>>
    /\ knowledge_categories' =
           SelectSeq(knowledge_categories, LAMBDA c : c.id # category_id)
    /\ rankCall' = NoRankCall
    /\ searchCall' = NoSearchCall
    /\ UNCHANGED <<entries, tags_table, knowledge_revisions, categories_made, kbRedis,
                   engineVars, dpVars, requestVars>>

\* DELETE /categories/{category_id} (delete_category): 404 for an unknown
\* category, 400 for one with child categories, 400 for one with entries
DeleteCategory(category_id) ==
    /\ category_id \in CategoryIds
    /\ ChildrenOf(category_id) = <<>>
    /\ EntriesOf(category_id) = <<>>
    /\ knowledge_categories' =
           SelectSeq(knowledge_categories, LAMBDA c : c.id # category_id)
    /\ rankCall' = NoRankCall
    /\ searchCall' = NoSearchCall
    /\ UNCHANGED <<entries, tags_table, knowledge_revisions, categories_made, kbRedis,
                   engineVars, dpVars, requestVars>>

\* ------------------------------------------------- overlapping updates
\* update_knowledge_entry up to its query: the session loads the row as it
\* is committed now (a missing entry is answered with 404 at once).  No row
\* lock is taken and the mapper has no version_id_col.
UpdateLoad(p, entry_id, update) ==
    /\ sessions[p].pc = "idle"
    /\ entry_id \in 1..Len(entries)
    /\ Len(knowledge_revisions) < MaxUpdates + Len(entries)
    /\ sessions' = [sessions EXCEPT ![p] =
                       [pc |-> "loaded", entry_id |-> entry_id, update |-> <<update>>,
                        loaded |-> <<entries[entry_id]>>]]
    /\ UNCHANGED <<entries, rankCall, kbRedis, searchCall, kbTables, engineVars, dpVars>>

\* the rest of update_knowledge_entry: the fields of the request are set on
\* the loaded object, `db_entry.version += 1` is computed from the loaded
\* version, the revision is built from the object, and the commit writes the
\* columns whose value changed on the object and inserts the revision
UpdateCommit(p) ==
    /\ sessions[p].pc = "loaded"
    /\ LET id == sessions[p].entry_id
           update == sessions[p].update[1]
           loaded == sessions[p].loaded[1]
           object == [loaded EXCEPT !.title = Given(update.title, @),
                                    !.content = Given(update.content, @),
                                    !.summary = Given(update.summary, @),
                                    !.is_active = Given(update.is_active, @),
                                    !.version = @ + 1]
           Written(column, committed) ==
               IF object[column] # loaded[column] THEN object[column] ELSE committed
       IN /\ entries' =
                 [entries EXCEPT ![id] =
                     [@ EXCEPT !.title = Written("title", @),
                               !.content = Written("content", @),
                               !.summary = Written("summary", @),
                               !.is_active = Written("is_active", @),
                               !.version = Written("version", @)]]
          /\ knowledge_revisions' =
                 AddRevision(knowledge_revisions,
                             KnowledgeRevision(id, object.version, object.title,
                                               object.content, object.summary))
    /\ sessions' = [sessions EXCEPT ![p] = NoSession]
    /\ rankCall' = NoRankCall
    /\ searchCall' = NoSearchCall
    /\ UNCHANGED <<knowledge_categories, categories_made, tags_table, kbRedis, engineVars,
                   dpVars>>

\* semantic/client.py SemanticClient.find_similar_knowledge: all rows of
\* knowledge_entries are ranked in process; any exception gives []
FindSimilarInProcess(text, limit, threshold, encodeFails) ==
    /\ rankCall' =
           [done |-> TRUE, failed |-> encodeFails, text |-> text, limit |-> limit,
            threshold |-> threshold,
            results |-> IF encodeFails THEN <<>>
                        ELSE ServiceFindSimilar(text, entries, limit, threshold)]
    /\ UNCHANGED <<entries, kbRedis, searchCall, kbTables, engineVars, dpVars, requestVars>>

Tick ==
    /\ now + TickSeconds <= MaxClock
    /\ now' = now + TickSeconds
    /\ UNCHANGED <<kbVars, dpVars, genVars, embeddingVars, model_version, redis, knowledge_base, genLast,
                 firstOk, engineCall>>

\* a request that calls EmbeddingService.generate_embedding(text)
GenerateEmbedding(text, env) ==
    LET r == generate_embedding(text, redis, now, model_version, env.getFails,
                                env.encodeFails[1], env.setFails)
    IN /\ redis' = r.store
       /\ genLast' = GenRecord(text, r, env)
       /\ firstOk' = FirstRecord(text, r)
       /\ engineCall' = NoEngineCall
       /\ UNCHANGED <<kbVars, dpVars, genVars, embeddingVars, now, model_version, knowledge_base>>

\* EmbeddingService.create_knowledge_base_entry: a row is added only after
\* generate_embedding returned
\* EmbeddingService.create_knowledge_base_entry
CreateKnowledgeBaseEntry(title, content, env) ==
    LET text == title \o <<" ">> \o content
        r == generate_embedding(text, redis, now, model_version, env.getFails,
                                env.encodeFails[1], env.setFails)
    IN /\ Len(knowledge_base) < MaxRows
       /\ redis' = r.store
       /\ genLast' = GenRecord(text, r, env)
       /\ firstOk' = FirstRecord(text, r)
       /\ knowledge_base' =
              IF r.outcome = "returned"
              THEN Append(knowledge_base,
                          [id |-> Len(knowledge_base) + 1, title |-> title,
                           content |-> content, embedding |-> r.vector])
              ELSE knowledge_base
       /\ createCall' = CreateRecord("create_knowledge_base_entry", text, r)
       /\ engineCall' = NoEngineCall
       /\ UNCHANGED <<kbVars, dpVars, genVars, question_embeddings, response_embeddings, now,
                      model_version>>

CreateQuestionEmbeddingOrZeros(question_id, text, env) ==
    LET r == generate_embedding(text, redis, now, model_version, env.getFails,
                                env.encodeFails[1], env.setFails)
    IN /\ Len(question_embeddings) < MaxRows
       /\ redis' = r.store
       /\ genLast' = GenRecord(text, r, env)
       /\ firstOk' = FirstRecord(text, r)
       /\ question_embeddings' =
              Append(question_embeddings,
                     QuestionEmbedding(question_id, text,
                                       IF r.outcome = "returned" THEN r.vector
                                       ELSE [i \in 1..model_version |-> 0],
                                       model_version))
       /\ createCall' =
              [fn |-> "create_question_embedding", text |-> text,
               outcome |-> "returned", vector |-> question_embeddings'[Len(question_embeddings')].embedding]
       /\ engineCall' = NoEngineCall
       /\ UNCHANGED <<kbVars, dpVars, genVars, response_embeddings, knowledge_base, now,
                      model_version>>

\* EmbeddingService.create_question_embedding: whatever generate_embedding
\* raises leaves the function before the row is built
CreateQuestionEmbedding(question_id, text, env) ==
    LET r == generate_embedding(text, redis, now, model_version, env.getFails,
                                env.encodeFails[1], env.setFails)
    IN /\ Len(question_embeddings) < MaxRows
       /\ redis' = r.store
       /\ genLast' = GenRecord(text, r, env)
       /\ firstOk' = FirstRecord(text, r)
       /\ question_embeddings' =
              IF r.outcome = "returned"
              THEN Append(question_embeddings,
                          QuestionEmbedding(question_id, text, r.vector, model_version))
              ELSE question_embeddings
       /\ createCall' = CreateRecord("create_question_embedding", text, r)
       /\ engineCall' = NoEngineCall
       /\ UNCHANGED <<kbVars, dpVars, genVars, response_embeddings, knowledge_base, now,
                      model_version>>

\* EmbeddingService.create_response_embedding
CreateResponseEmbedding(response_id, text, env) ==
    LET r == generate_embedding(text, redis, now, model_version, env.getFails,
                                env.encodeFails[1], env.setFails)
    IN /\ Len(response_embeddings) < MaxRows
       /\ redis' = r.store
       /\ genLast' = GenRecord(text, r, env)
       /\ firstOk' = FirstRecord(text, r)
       /\ response_embeddings' =
              IF r.outcome = "returned"
              THEN Append(response_embeddings,
                          ResponseEmbedding(response_id, text, r.vector, model_version))
              ELSE response_embeddings
       /\ createCall' = CreateRecord("create_response_embedding", text, r)
       /\ engineCall' = NoEngineCall
       /\ UNCHANGED <<kbVars, dpVars, genVars, question_embeddings, knowledge_base, now,
                      model_version>>

\* EmbeddingService.find_similar_knowledge.  Its parameter `text` shadows
\* sqlalchemy.text (imported on line 9), so after the query embedding is
\* generated, `query = text(f"...")` calls a str and raises TypeError: the
\* SELECT is never sent and no row is ever returned.
FindSimilarKnowledge(text, limit, threshold, env) ==
    LET r == generate_embedding(text, redis, now, model_version, env.getFails,
                                env.encodeFails[1], env.setFails)
    IN /\ redis' = r.store
       /\ genLast' = GenRecord(text, r, env)
       /\ firstOk' = FirstRecord(text, r)
       /\ engineCall' =
              [done |-> TRUE, outcome |-> "raised",
               why |-> IF r.outcome = "raised" THEN r.why ELSE "TypeError",
               text |-> text, limit |-> limit, threshold |-> threshold,
               rows |-> <<>>]
       /\ UNCHANGED <<kbVars, dpVars, genVars, embeddingVars, now, model_version, knowledge_base>>

ParseAndSaveUploadFirst(file_content, env) ==
    LET parsed == parse_excel_file(file_content)
        id == IF tender_documents = <<>> THEN 1
              ELSE tender_documents[Len(tender_documents)].id + 1
        filename == parseCall.calls + 1
        call(outcome) ==
            [called |-> TRUE, calls |-> parseCall.calls + 1, file |-> file_content,
             env |-> env, outcome |-> outcome, parsed |-> parsed, before |-> Stored]
    IN /\ parseCall.calls < MaxUploads
       /\ IF env.uploadFails
          THEN /\ parseCall' = call("raised")
               /\ UNCHANGED <<minio, tender_documents, tender_sheets, tender_questions>>
          ELSE IF parsed.outcome = "raised" \/ env.commitFails
          THEN /\ parseCall' = call("raised")
               /\ minio' = Append(minio, StoredObject(filename, file_content))
               /\ UNCHANGED <<tender_documents, tender_sheets, tender_questions>>
          ELSE /\ parseCall' = call("returned")
               /\ minio' = Append(minio, StoredObject(filename, file_content))
               /\ tender_documents' =
                      Append(tender_documents,
                             TenderDocument(id, filename, file_content,
                                            Len(parsed.sheets)))
               /\ tender_sheets' = tender_sheets \o SheetRows(id, parsed.structure)
               /\ tender_questions' = tender_questions \o QuestionRows(id, parsed)
       /\ UNCHANGED <<kbVars, engineVars>>

\* ExcelParser.parse_and_save, as the upload route calls it: parse, upload
\* the bytes under a fresh name (upload_file's uuid4, here the number of
\* the call), then add the document, its sheets and its questions to the
\* session and commit.  An exception leaves the session uncommitted.
ParseAndSave(file_content, env) ==
    LET parsed == parse_excel_file(file_content)
        id == IF tender_documents = <<>> THEN 1
              ELSE tender_documents[Len(tender_documents)].id + 1
        filename == parseCall.calls + 1
        call(outcome) ==
            [called |-> TRUE, calls |-> parseCall.calls + 1, file |-> file_content, env |-> env, outcome |-> outcome,
             parsed |-> parsed, before |-> Stored]
    IN /\ parseCall.calls < MaxUploads
       /\ IF parsed.outcome = "raised" \/ env.uploadFails
          THEN /\ parseCall' = call("raised")
               /\ UNCHANGED <<minio, tender_documents, tender_sheets, tender_questions>>
          ELSE IF env.commitFails
          THEN /\ parseCall' = call("raised")
               /\ minio' = Append(minio, StoredObject(filename, file_content))
               /\ UNCHANGED <<tender_documents, tender_sheets, tender_questions>>
          ELSE /\ parseCall' = call("returned")
               /\ minio' = Append(minio, StoredObject(filename, file_content))
               /\ tender_documents' =
                      Append(tender_documents,
                             TenderDocument(id, filename, file_content,
                                            Len(parsed.sheets)))
               /\ tender_sheets' = tender_sheets \o SheetRows(id, parsed.structure)
               /\ tender_questions' = tender_questions \o QuestionRows(id, parsed)
       /\ UNCHANGED <<kbVars, engineVars>>

\* what a DELETE /documents/{document_id} meets: no MinIO client
\* (delete_file raises ConnectionError), remove_object raising S3Error
\* (delete_file logs it and returns False), a commit that raises
DeleteEnv(clientFails, removeFails, commitFails) ==
    [clientFails |-> clientFails, removeFails |-> removeFails, commitFails |-> commitFails]

\* DELETE /documents/{document_id} (delete_document): 404 for an unknown
\* document; the object is removed first, the result of delete_file is not
\* looked at, then the record goes with its sheets and questions
DeleteDocument(document_id, env) ==
    /\ \E k \in 1..Len(tender_documents) : tender_documents[k].id = document_id
    /\ LET document == tender_documents[CHOOSE k \in 1..Len(tender_documents) :
                                            tender_documents[k].id = document_id]
           removed == SelectSeq(minio, LAMBDA o : o.name # document.storage_path)
       IN IF env.clientFails
          THEN UNCHANGED <<minio, tender_documents, tender_sheets, tender_questions>>
          ELSE /\ minio' = IF env.removeFails THEN minio ELSE removed
               /\ IF env.commitFails
                  THEN UNCHANGED <<tender_documents, tender_sheets, tender_questions>>
                  ELSE /\ tender_documents' =
                              SelectSeq(tender_documents, LAMBDA d : d.id # document_id)
                       /\ tender_sheets' =
                              SelectSeq(tender_sheets, LAMBDA r : r.document_id # document_id)
                       /\ tender_questions' =
                              SelectSeq(tender_questions,
                                        LAMBDA r : r.document_id # document_id)
    /\ UNCHANGED <<parseCall, kbVars, engineVars>>

NextRank ==
    \/ \E t \in EntryTitles : CreateEntry(t, <<"_">>, None, "manual", NULL, <<>>, NoCategorizer)
    \/ \E q \in Queries, l \in Limits, th \in Thresholds, f \in BOOLEAN :
          FindSimilarInProcess(q, l, th, f)

InitRank == Init /\ model_version = D

SpecRank == InitRank /\ [][NextRank]_vars

GenTexts == {<<>>, <<"a">>, NonString}

NextEmbed ==
    \/ Tick
    \/ \E t \in GenTexts, env \in Envs : GenerateEmbedding(t, env)

SpecEmbed == Init /\ [][NextEmbed]_vars

NextEngineRank ==
    \/ \E t \in EngineTitles, c \in EngineContents, env \in Envs :
          CreateKnowledgeBaseEntry(t, c, env)
    \/ \E t \in Queries, l \in Limits, th \in Thresholds, env \in Envs :
          FindSimilarKnowledge(t, l, th, env)

SpecEngineRank == InitRank /\ [][NextEngineRank]_vars

\* ------------------------------------------------- overlapping calls
\* generate_embedding(text) is entered by caller p
GenBegin(p, text) ==
    /\ gen[p].pc \in {"idle", "returned"}
    /\ started < MaxCalls
    /\ gen' = [gen EXCEPT ![p] = [Idle EXCEPT !.pc = "get", !.text = text]]
    /\ started' = started + 1
    /\ UNCHANGED <<kbVars, dpVars, embeddingVars, now, model_version, redis, knowledge_base,
                   genLast, firstOk, engineCall, modelCalls>>

\* `cached = self.redis.get(cache_key)` and `if cached: return json.loads(cached)`
GenGet(p) ==
    /\ gen[p].pc = "get"
    /\ LET cached == RedisGet(redis, CacheKey(gen[p].text), now)
       IN gen' = [gen EXCEPT ![p] =
                     IF cached.present
                     THEN [@ EXCEPT !.pc = "returned", !.vector = JsonLoads(cached.value)]
                     ELSE [@ EXCEPT !.pc = "encode", !.missed = TRUE]]
    /\ UNCHANGED <<kbVars, dpVars, embeddingVars, now, model_version, redis, knowledge_base,
                   genLast, firstOk, engineCall, modelCalls, started>>

\* `embedding = self.model.encode(text)` on the preprocessed text
GenEncode(p) ==
    /\ gen[p].pc = "encode"
    /\ gen' = [gen EXCEPT ![p] =
                  [@ EXCEPT !.pc = "set",
                            !.vector = Encode(Preprocess(gen[p].text), model_version)]]
    /\ modelCalls' = [modelCalls EXCEPT ![gen[p].text] = @ + 1]
    /\ UNCHANGED <<kbVars, dpVars, embeddingVars, now, model_version, redis, knowledge_base,
                   genLast, firstOk, engineCall, started>>

\* `self.redis.set(cache_key, json.dumps(embedding_list), ex=3600)` and the return
GenSet(p) ==
    /\ gen[p].pc = "set"
    /\ redis' = RedisSet(redis, CacheKey(gen[p].text), JsonDumps(gen[p].vector),
                         CACHE_TTL, now)
    /\ gen' = [gen EXCEPT ![p] = [@ EXCEPT !.pc = "returned"]]
    /\ UNCHANGED <<kbVars, dpVars, embeddingVars, now, model_version, knowledge_base,
                   genLast, firstOk, engineCall, modelCalls, started>>

NextOverlap ==
    \/ \E p \in Callers, t \in OverlapTexts : GenBegin(p, t)
    \/ \E p \in Callers : GenGet(p)
    \/ \E p \in Callers : GenEncode(p)
    \/ \E p \in Callers : GenSet(p)

SpecOverlap == Init /\ [][NextOverlap]_vars

NextPersist ==
    \/ Tick
    \/ \E t \in {<<"a">>, <<"c">>}, env \in Envs : CreateQuestionEmbedding("q1", t, env)
    \/ \E env \in Envs : CreateResponseEmbedding("r1", <<"a">>, env)
    \/ \E env \in Envs : CreateKnowledgeBaseEntry(<<"a">>, <<"_">>, env)

SpecPersist == Init /\ [][NextPersist]_vars

\* what a search request records: its arguments and its response
SearchCallOf(method, query, limit, offset, f, env) ==
    LET found == ClientFindSimilar(query, limit, SEARCH_THRESHOLD, kbRedis, now, env)
    IN [done |-> TRUE, method |-> method, query |-> query, limit |-> limit,
        offset |-> offset, filters |-> f, env |-> env,
        hit |-> ~env.getFails
                /\ RedisGet(kbRedis, SimilarKey(query, limit, SEARCH_THRESHOLD), now).present,
        semantic |-> found.outcome, similar |-> found.results,
        response |-> SearchResponse(entries, query, limit, offset, f, found)]

\* POST /entries/search
Search(query, limit, offset, f, env) ==
    /\ kbRedis' = ClientFindSimilar(query, limit, SEARCH_THRESHOLD, kbRedis, now, env).store
    /\ searchCall' = SearchCallOf("POST", query, limit, offset, f, env)
    /\ rankCall' = NoRankCall
    /\ UNCHANGED <<entries, kbTables, engineVars, dpVars, requestVars>>

\* GET /entries/search?query=...: the router calls the first route that
\* matches.  get_knowledge_entry looks for the entry whose id is the
\* segment; ids are generated uuids, so none is "search".
GetSearch(query, limit, offset, f, env) ==
    LET endpoint == Dispatch(ROUTES, "GET", <<"search">>)
    IN /\ endpoint \in {"search_knowledge_get", "get_knowledge_entry"}
       /\ IF endpoint = "search_knowledge_get"
          THEN /\ kbRedis' =
                      ClientFindSimilar(query, limit, SEARCH_THRESHOLD, kbRedis, now, env).store
               /\ searchCall' = SearchCallOf("GET", query, limit, offset, f, env)
          ELSE /\ kbRedis' = kbRedis
               /\ searchCall' =
                      [NoSearchCall EXCEPT !.done = TRUE, !.method = "GET", !.query = query,
                                           !.limit = limit, !.offset = offset,
                                           !.filters = f, !.env = env,
                                           !.response = NotFound]
       /\ rankCall' = NoRankCall
       /\ UNCHANGED <<entries, kbTables, engineVars, dpVars, requestVars>>

\* (title, content, summary, source_type) of the entries created
SearchEntries ==
    {<<<<"A", "b">>, <<"_">>, None, "manual">>,
     <<<<"c">>, <<"a">>, None, "tender">>,
     <<<<"c">>, <<"_">>, <<"a">>, "manual">>}

SearchFilters == {NoFilters, Filters(Unset, "manual", Unset, Unset)}

NextSearch ==
    \/ \E v \in SearchEntries :
          Len(entries) < MaxSearchEntries /\ CreateEntry(v[1], v[2], v[3], v[4], NULL, <<>>, NoCategorizer)
    \/ \E q \in SearchQueries, l \in SearchLimits, o \in SearchOffsets,
          f \in SearchFilters, env \in SearchEnvs :
          Search(q, l, o, f, env)

SpecSearch == InitRank /\ [][NextSearch]_vars

\* Searches with filters over entries that differ in source, category, tags
\* and activity.
FilterSources == {"manual", "tender"}

FilterTags == {<<>>, <<"x">>}

Categorizers ==
    {NoCategorizer, SearchEnv(FALSE, HttpOk(Categorized("tech", 90)), FALSE)}

FilterUpdates ==
    {KnowledgeEntryUpdate(<<>>, <<>>, <<>>, <<>>, <<FALSE>>, <<>>),
     KnowledgeEntryUpdate(<<>>, <<>>, <<>>, <<>>, <<>>, << <<"x", "x">> >>)}

FilterChoices ==
    {NoFilters,
     Filters("k1", Unset, Unset, Unset),
     Filters(Unset, "manual", Unset, Unset),
     Filters(Unset, Unset, "true", Unset),
     Filters(Unset, Unset, Unset, "x"),
     Filters("k1", "manual", "true", "x"),
     TagsFilter(<<"x">>)}

FilterEnvs ==
    {SearchEnv(FALSE, HttpFailure("error_status"), FALSE),
     SearchEnv(FALSE, HttpOk(EngineAnswer), FALSE)}

NextFilter ==
    \/ \E src \in FilterSources, c \in {NULL} \cup CategoryIds, tg \in FilterTags,
          env \in Categorizers :
          Len(entries) < MaxSearchEntries /\ CreateEntry(<<"a">>, <<"_">>, None, src, c, tg, env)
    \/ \E id \in 1..Len(entries), u \in FilterUpdates :
          entries[id].version < MaxVersion /\ UpdateEntry(id, u)
    \/ \E f \in FilterChoices, env \in FilterEnvs : Search(<<"a">>, MaxLimit, 0, f, env)
    \/ \E env \in FilterEnvs : GetSearch(<<"a">>, MaxLimit, 0, NoFilters, env)

SpecFilter == InitRank /\ [][NextFilter]_vars

\* ---------------------------------------------------------------- revisions
RevisionUpdates ==
    {KnowledgeEntryUpdate(<<>>, << <<"b">> >>, <<>>, <<>>, <<>>, <<>>),
     KnowledgeEntryUpdate(<<>>, <<>>, << <<"a">> >>, <<>>, <<>>, <<>>),
     KnowledgeEntryUpdate(<<>>, <<>>, <<>>, <<>>, <<FALSE>>, <<>>)}

NextRevisions ==
    \/ \E t \in {<<"a">>, <<"c">>} :
          /\ Len(entries) < MaxSearchEntries
          /\ Len(knowledge_revisions) < MaxRevisions
          /\ CreateEntry(t, <<"_">>, None, "manual", NULL, <<>>, NoCategorizer)
    \/ \E id \in 1..Len(entries), u \in RevisionUpdates :
          Len(knowledge_revisions) < MaxRevisions /\ UpdateEntry(id, u)

SpecRevisions == InitRank /\ [][NextRevisions]_vars

CategoryNamePool == {"tech", "ops"}

CategoryRefs == {NULL} \cup {CategoryIdPool[k] : k \in 1..Len(CategoryIdPool)}

NextCategories ==
    \/ \E n \in CategoryNamePool, parent \in CategoryRefs : CreateCategory(n, parent)
    \/ \E id \in CategoryIds, n \in CategoryNamePool, parent \in CategoryRefs :
          UpdateCategory(id, n, parent)
    \/ \E id \in CategoryIds : DeleteCategory(id)
    \/ \E c \in CategoryRefs :
          /\ Len(entries) < MaxSearchEntries
          /\ CreateEntry(<<"a">>, <<"_">>, None, "manual", c, <<>>, NoCategorizer)
    \/ \E id \in 1..Len(entries), c \in CategoryRefs :
          /\ entries[id].version < MaxVersion
          /\ UpdateEntry(id, KnowledgeEntryUpdate(<<c>>, <<>>, <<>>, <<>>, <<>>, <<>>))

SpecCategories == InitRank /\ [][NextCategories]_vars

NextOverlappingUpdates ==
    \/ \E t \in {<<"a">>} :
          /\ Len(entries) < MaxSearchEntries
          /\ CreateEntry(t, <<"_">>, None, "manual", NULL, <<>>, NoCategorizer)
    \/ \E p \in Requests, id \in 1..Len(entries), u \in RevisionUpdates :
          UpdateLoad(p, id, u)
    \/ \E p \in Requests : UpdateCommit(p)

SpecOverlappingUpdates == InitRank /\ [][NextOverlappingUpdates]_vars

\* ---------------------------------------------------------------- uploads
S1 == <<"S", "1">>

S2 == <<"S", "2">>

Q == Str(<<"q", "?">>)

OK == Str(<<"o", "k">>)

\* the sheets named `name` with the labels `headers`, at most MaxDataRows
\* data rows and cells drawn from `cells`
SheetsOver(name, headers, cells) ==
    {Sheet(name, headers, rows) :
        rows \in UNION {[1..n -> [1..Len(headers) -> cells]] : n \in 0..MaxDataRows}}

QuestionAnswer == <<Str(<<"Q", "u", "e", "s", "t", "i", "o", "n">>), Str(<<"A", "n", "s", "w", "e", "r">>)>>

QuestionQueryAnswer ==
    <<Str(<<"Q", "u", "e", "s", "t", "i", "o", "n">>), Str(<<"Q", "u", "e", "r", "y">>), Str(<<"A", "n", "s", "w", "e", "r">>)>>

ResponseReply == <<Str(<<"P", "r", "o", "m", "p", "t">>), Str(<<"R", "e", "s", "p", "o", "n", "s", "e">>), Str(<<"R", "e", "p", "l", "y">>)>>

QuestionNote == <<Str(<<"Q", "u", "e", "s", "t", "i", "o", "n">>), Str(<<"N", "o", "t", "e">>)>>

ItemNote == <<Str(<<"I", "t", "e", "m">>), Str(<<"N", "o", "t", "e">>)>>

ItemOnly == <<Str(<<"I", "t", "e", "m">>)>>

DigitsReply == <<Str(<<"7">>), Str(<<"R", "e", "p", "l", "y">>)>>

Spaced == Str(<<"q", "?", " ">>)

AQuestion == Str(<<"a", " ", "q", "u", "e", "s", "t", "i", "o", "n">>)

Questions == Str(<<"q", "u", "e", "s", "t", "i", "o", "n", "s">>)

OneSheet ==
    SheetsOver(S1, QuestionAnswer, {EmptyCell, Q})
        \cup SheetsOver(S1, QuestionAnswer, {Q, Num(0)})
        \cup SheetsOver(S1, QuestionAnswer, {Q, Spaced})
        \cup SheetsOver(S1, QuestionQueryAnswer, {Q})
        \cup SheetsOver(S1, ResponseReply, {Q})
        \cup SheetsOver(S1, QuestionNote, {EmptyCell, Q})
        \cup SheetsOver(S1, ItemNote, {EmptyCell, Q})
        \cup SheetsOver(S1, ItemNote, {Q, OK})
        \cup SheetsOver(S1, ItemOnly, {EmptyCell, Q, Spaced, AQuestion, Questions, OK})
        \cup SheetsOver(S1, DigitsReply, {EmptyCell, Q})
        \cup SheetsOver(S1, <<Num(0), Num(1)>>, {EmptyCell, Q})
        \cup SheetsOver(S1, <<Num(0), Num(1)>>, {Q, Num(0)})
        \cup SheetsOver(S1, <<Num(2), Num(1)>>, {Q, OK})
        \cup SheetsOver(S1, <<Num(1), Num(3)>>, {EmptyCell, Q})

\* a structured sheet followed by a sheet without question/answer headers
TwoSheets ==
    {<<Sheet(S1, QuestionAnswer, <<r1>>), Sheet(S2, ItemNote, <<r2>>)>> :
        r1 \in [1..2 -> {EmptyCell, Q}], r2 \in [1..2 -> {Q, OK}]}

Workbooks ==
    {Unreadable} \cup {Workbook(<<sh>>) : sh \in OneSheet}
        \cup {Workbook(sheets) : sheets \in TwoSheets}

\* the uploads that follow the first one
LaterWorkbooks ==
    {Unreadable, Workbook(<<Sheet(S1, QuestionAnswer, <<<<Q, OK>>>>)>>)}

UploadEnvs == {UploadEnv(FALSE, FALSE), UploadEnv(TRUE, FALSE), UploadEnv(FALSE, TRUE)}

NextParse ==
    \E file \in (IF parseCall.calls = 0 THEN Workbooks ELSE LaterWorkbooks),
       env \in (IF parseCall.calls = 0 THEN UploadEnvs ELSE {UploadEnv(FALSE, FALSE)}) :
        ParseAndSave(file, env)

SpecParse == Init /\ [][NextParse]_vars

DeleteEnvs ==
    {DeleteEnv(FALSE, FALSE, FALSE), DeleteEnv(TRUE, FALSE, FALSE),
     DeleteEnv(FALSE, TRUE, FALSE), DeleteEnv(FALSE, FALSE, TRUE)}

NextDocuments ==
    \/ \E file \in LaterWorkbooks, env \in UploadEnvs :
          ParseAndSave(file, env)
    \/ \E id \in 1..MaxUploads, env \in DeleteEnvs : DeleteDocument(id, env)

SpecDocuments == Init /\ [][NextDocuments]_vars

\* ------------------------------------------------------------------ claims
\* similarity of row i of knowledge_entries to the query of the last ranking
EntrySim(i) ==
    Cosine(Encode(rankCall.text, ModelDim), Encode(EntryText(entries[i]), ModelDim))

Qualifying == {i \in 1..Len(entries) : SimGE(EntrySim(i), rankCall.threshold)}

C2_StableTieBreak ==
    rankCall.done =>
        LET r == rankCall.results IN
        \A k \in 1..Len(r), l \in 1..Len(r) :
            k < l /\ SimEQ(r[k].similarity, r[l].similarity) => r[k].id < r[l].id

\* The in-process scan keeps a candidate whose similarity equals the
\* threshold (when the limit does not bind).
InProcessKeepsAtThreshold ==
    rankCall.done /\ ~rankCall.failed /\ Cardinality(Qualifying) <= rankCall.limit =>
        \A i \in 1..Len(entries) :
            SimEQ(EntrySim(i), rankCall.threshold) =>
                \E k \in 1..Len(rankCall.results) : rankCall.results[k].id = i

\* similarity of row i of knowledge_base to the query embedding of the last
\* engine ranking
RowSim(i) ==
    Cosine(Encode(Preprocess(engineCall.text), model_version), knowledge_base[i].embedding)

\* C3 (as claimed): in every ranking implementation a candidate whose
\* similarity equals the threshold is kept when the limit does not bind.
C3_KeptAtThreshold ==
    /\ InProcessKeepsAtThreshold
    /\ engineCall.done /\ genLast.outcome = "returned"
         /\ Cardinality({i \in 1..Len(knowledge_base) :
                            SimGE(RowSim(i), engineCall.threshold)}) <= engineCall.limit
         => \A i \in 1..Len(knowledge_base) :
                SimEQ(RowSim(i), engineCall.threshold) =>
                    \E k \in 1..Len(engineCall.rows) : engineCall.rows[k].id = i

\* the last generate_embedding call got as far as calling the model
ReachedModel ==
    /\ genLast.outcome # "none" /\ genLast.text # NonString
    /\ ~genLast.env.getFails /\ ~genLast.hit

\* C4: from the first call for a text that returned, and for CACHE_TTL
\* seconds after it, the calls for that text invoke the model at most once in
\* total and every one that returns, returns the vector of the first; a call
\* answered from the cache does not invoke the model.
C4_CachedWithinTtl ==
    /\ genLast.hit => genLast.attempts = 0
    /\ \A t \in GenTexts :
          firstOk[t].set =>
              /\ firstOk[t].calls <= 1
              /\ genLast.text = t /\ genLast.outcome = "returned"
                    /\ genLast.at < firstOk[t].at + CACHE_TTL
                 => genLast.vector = firstOk[t].vector

\* C4 witness: a later call within the TTL is answered from the cache.
C4_Witness ==
    /\ firstOk[<<"a">>].set /\ firstOk[<<"a">>].calls = 1
    /\ genLast.text = <<"a">> /\ genLast.outcome = "returned" /\ genLast.hit
    /\ genLast.at > firstOk[<<"a">>].at
    /\ genLast.at < firstOk[<<"a">>].at + CACHE_TTL
    /\ genLast.vector = Encode(<<"a">>, model_version)

\* C5 (as claimed): a failing cache read or write is treated as a miss; the
\* call still returns the freshly computed result.
C5_CacheErrorsSwallowed ==
    /\ genLast.outcome # "none" /\ genLast.text # NonString
          /\ (genLast.env.getFails \/ genLast.env.setFails)
          /\ ~genLast.env.encodeFails[1]
       => /\ genLast.outcome = "returned"
          /\ genLast.vector = Encode(Preprocess(genLast.text), model_version)
    /\ searchCall.done /\ (searchCall.env.getFails \/ searchCall.env.setFails)
          /\ searchCall.env.http.kind = "ok"
       => /\ searchCall.semantic = "returned"
          /\ searchCall.similar = searchCall.env.http.results

\* C6 (as claimed): up to three attempts are made; the call returns the vector
\* of the first attempt that succeeds and raises, after three attempts and
\* without writing the cache, when all three fail.
C6_RetriesUpToThreeAttempts ==
    ReachedModel /\ ~genLast.env.setFails =>
        LET fails == genLast.env.encodeFails IN
        /\ genLast.attempts <= 3
        /\ (\E k \in 1..3 : ~fails[k]) =>
               /\ genLast.outcome = "returned"
               /\ genLast.vector = Encode(Preprocess(genLast.text), model_version)
        /\ (\A k \in 1..3 : fails[k]) =>
               genLast.outcome = "raised" /\ genLast.attempts = 3 /\ ~genLast.wrote

\* C7 (as claimed): the empty string and a non-string input give the all-zero
\* vector of length D without a model call and without raising.
C7_EmptyOrNonStringGivesZero ==
    genLast.outcome # "none" /\ genLast.text \in {<<>>, NonString}
          /\ genLast.env = NoFault =>
        /\ genLast.outcome = "returned"
        /\ genLast.vector = ZeroVec(D)
        /\ genLast.attempts = 0

\* C8 (as claimed): every vector returned has exactly D elements.
C8_VectorHasDimensionD ==
    genLast.outcome = "returned" => Len(genLast.vector) = D

\* the text contains the query, letters compared without case
Contains(column, query) ==
    /\ column # None
    /\ \E i \in 1..(Len(column) - Len(query) + 1) :
          LowerText(SubSeq(column, i, i + Len(query) - 1)) = LowerText(query)

SubstringMatch(e, query) ==
    Contains(e.title, query) \/ Contains(e.content, query) \/ Contains(e.summary, query)

\* the entries a direct substring match gives for the last search request
DirectMatch ==
    LET wanted(e) == SubstringMatch(e, searchCall.query) /\ PassesFilters(e, searchCall.filters)
    IN Ids(Page(SelectSeq(entries, wanted), searchCall.offset, searchCall.limit))

\* C9 (as claimed): when the semantic path raises or returns nothing, search
\* returns exactly the entries whose title, content or summary contains the
\* query without regard to case, restricted by the filters and the page.
C9_FallbackIsSubstringMatch ==
    searchCall.done /\ (searchCall.semantic = "raised" \/ searchCall.similar = <<>>) =>
        /\ searchCall.response.status = 200
        /\ searchCall.response.results = DirectMatch

\* The same for fallbacks after a semantic path that returned nothing, for a
\* query without LIKE wildcards.
FallbackWithoutWildcardIsSubstringMatch ==
    searchCall.done /\ searchCall.semantic = "returned" /\ searchCall.similar = <<>>
          /\ searchCall.query = <<"a">> =>
        /\ searchCall.response.status = 200
        /\ searchCall.response.results = DirectMatch

\* The same for fallbacks after a semantic path that returned nothing, for
\* any query.
WildcardQueryIsSubstringMatch ==
    searchCall.done /\ searchCall.semantic = "returned" /\ searchCall.similar = <<>> =>
        /\ searchCall.response.status = 200
        /\ searchCall.response.results = DirectMatch

\* C10 (as claimed): whatever goes wrong on the semantic path, the search
\* request is answered successfully.
C10_SearchAlwaysSucceeds ==
    searchCall.done => searchCall.response.status = 200

\* The knowledge base client treats a failing cache read or write as a miss.
ClientCacheErrorsSwallowed ==
    searchCall.done /\ (searchCall.env.getFails \/ searchCall.env.setFails)
          /\ searchCall.env.http.kind = "ok" =>
        /\ searchCall.semantic = "returned"
        /\ searchCall.similar = searchCall.env.http.results

\* the entries the semantic path selected for the last search request, ranked
\* by similarity
RankedMatching ==
    LET ids == {searchCall.similar[k].id : k \in 1..Len(searchCall.similar)}
        wanted(e) == e.id \in ids /\ PassesFilters(e, searchCall.filters)
    IN SortedBySimilarity(SelectSeq(entries, wanted), searchCall.similar)

\* C11 (as claimed): when the semantic path produced ids (no more of them
\* than the limit it was asked for), the page returned is the slice
\* [offset, offset + limit) of the matching entries ranked by non-increasing
\* similarity.
C11_PageOfSimilarityRanking ==
    searchCall.done /\ searchCall.semantic = "returned" /\ searchCall.similar # <<>>
          /\ Len(searchCall.similar) <= searchCall.limit =>
        /\ searchCall.response.status = 200
        /\ searchCall.response.results =
               Ids(Page(RankedMatching, searchCall.offset, searchCall.limit))

\* Within the page returned, the entries are in non-increasing order of
\* similarity.
PageIsSortedBySimilarity ==
    searchCall.done /\ searchCall.semantic = "returned" /\ searchCall.similar # <<>> =>
        LET r == searchCall.response.results IN
        \A k \in 1..(Len(r) - 1) :
            SimGE(SimilarityOf(searchCall.similar, r[k]),
                  SimilarityOf(searchCall.similar, r[k + 1]))

\* the entries the path taken by the last search selects before filtering
IsCandidate(e) ==
    LET ids == {searchCall.similar[k].id : k \in 1..Len(searchCall.similar)}
    IN IF ids # {} THEN e.id \in ids ELSE BasicMatch(e, searchCall.query)

\* C12 (as claimed): on either path every entry returned satisfies every
\* filter supplied, and `total` is the number of candidate entries that
\* satisfy all of them.
C12_FiltersAndTotal ==
    searchCall.done /\ searchCall.response.status = 200 =>
        LET r == searchCall.response.results IN
        /\ \A k \in 1..Len(r) : PassesFilters(entries[r[k]], searchCall.filters)
        /\ searchCall.response.total =
               Cardinality({i \in 1..Len(entries) :
                               IsCandidate(entries[i])
                               /\ PassesFilters(entries[i], searchCall.filters)})

\* Every entry returned satisfies every filter supplied.
ResultsSatisfyFilters ==
    searchCall.done /\ searchCall.response.status = 200 =>
        LET r == searchCall.response.results IN
        \A k \in 1..Len(r) : PassesFilters(entries[r[k]], searchCall.filters)

\* `total` is right as long as no entry is linked to the tag of the filter
\* by more than one row of knowledge_tags.
TotalWithoutRepeatedTagRows ==
    searchCall.done /\ searchCall.response.status = 200
          /\ (\A i \in 1..Len(entries) : Distinct(entries[i].tags) = entries[i].tags) =>
        searchCall.response.total =
            Cardinality({i \in 1..Len(entries) :
                            IsCandidate(entries[i])
                            /\ PassesFilters(entries[i], searchCall.filters)})

\* ---- uploads
\* the last upload was read as a workbook
Parsed == parseCall.called /\ parseCall.parsed.outcome = "returned"

\* the candidates the last parse emitted for the sheet at position k
CandidatesOf(k) ==
    SelectSeq(parseCall.parsed.questions,
              LAMBDA q : q.sheet = parseCall.parsed.sheets[k].name)

\* a candidate of the structured phase names its answer column
IsStructured(q) == q.answer_column # NoColumn

\* the rows of a sheet whose cell under label position c is not empty
FilledRows(sheet, c) ==
    {r \in 1..Len(sheet.rows) : sheet.rows[r][c] # EmptyCell}

\* C13: a sheet for which the structured phase yields a candidate gets no
\* candidate from the fallback cell scan: every candidate of that sheet is
\* a structured one.
C13_StructuredSheetNoFallback ==
    Parsed =>
        \A k \in 1..Len(parseCall.parsed.sheets) :
            (\E i \in 1..Len(CandidatesOf(k)) : IsStructured(CandidatesOf(k)[i]))
                => \A i \in 1..Len(CandidatesOf(k)) : IsStructured(CandidatesOf(k)[i])

\* the positions of the labels that contain one of the words
Containing(headers, words) ==
    {c \in 1..Len(headers) : \E w \in words : HasSubstring(LowerText(PyStr(headers[c])), w)}

\* the structured candidates the last parse emitted for the sheet at position k
StructuredOf(k) == SelectSeq(CandidatesOf(k), IsStructured)

\* C14: the question column of a sheet is the first header, in declaration
\* order, that contains question, query or prompt, and the answer column is
\* the first header that contains answer, response or reply.
C14_FirstMatchingHeaderWins ==
    Parsed =>
        \A k \in 1..Len(parseCall.parsed.sheets) :
            \A i \in 1..Len(StructuredOf(k)) :
                LET headers == parseCall.parsed.sheets[k].headers
                IN /\ StructuredOf(k)[i].column
                          = headers[FirstOf(Containing(headers, QUESTION_WORDS))]
                   /\ StructuredOf(k)[i].answer_column
                          = headers[FirstOf(Containing(headers, ANSWER_WORDS))]

\* What holds instead: the last header that contains a question word is the
\* question column, and the last header that contains an answer word and no
\* question word is the answer column.
LastMatchingHeaderWins ==
    Parsed =>
        \A k \in 1..Len(parseCall.parsed.sheets) :
            \A i \in 1..Len(StructuredOf(k)) :
                LET headers == parseCall.parsed.sheets[k].headers
                IN /\ StructuredOf(k)[i].column
                          = headers[LastOf(Containing(headers, QUESTION_WORDS))]
                   /\ StructuredOf(k)[i].answer_column
                          = headers[LastOf(Containing(headers, ANSWER_WORDS)
                                               \ Containing(headers, QUESTION_WORDS))]

\* the structured candidates of sheet k that come from data row r
StructuredAt(k, r) == SelectSeq(StructuredOf(k), LAMBDA q : q.row = r - 1)

\* C15: in a sheet where a question column and an answer column are found,
\* each row whose question cell is not empty yields a candidate with the
\* cell as text and the row's answer cell, as a string, as context; a row
\* whose question cell is empty yields no structured candidate; a sheet
\* where one of the two columns is missing yields no structured candidate.
C15_StructuredRowsPaired ==
    Parsed =>
        \A k \in 1..Len(parseCall.parsed.sheets) :
            LET sheet == parseCall.parsed.sheets[k]
                q == QuestionCol(sheet.headers)
                a == AnswerCol(sheet.headers)
            IN IF q = 0 \/ a = 0 THEN StructuredOf(k) = <<>>
               ELSE \A r \in 1..Len(sheet.rows) :
                       IF sheet.rows[r][q] # EmptyCell
                       THEN \E i \in 1..Len(StructuredAt(k, r)) :
                               /\ StructuredAt(k, r)[i].text = PyStr(sheet.rows[r][q])
                               /\ StructuredAt(k, r)[i].context = PyStr(sheet.rows[r][a])
                       ELSE StructuredAt(k, r) = <<>>

\* What holds instead: the rows paired are those whose question cell is
\* neither the empty string nor the number 0.
NonZeroQuestionRowsPaired ==
    Parsed =>
        \A k \in 1..Len(parseCall.parsed.sheets) :
            LET sheet == parseCall.parsed.sheets[k]
                q == QuestionCol(sheet.headers)
                a == AnswerCol(sheet.headers)
            IN IF q = 0 \/ a = 0 THEN StructuredOf(k) = <<>>
               ELSE \A r \in 1..Len(sheet.rows) :
                       IF sheet.rows[r][q] \notin {EmptyCell, Num(0)}
                       THEN /\ Len(StructuredAt(k, r)) = 1
                            /\ StructuredAt(k, r)[1].text = PyStr(sheet.rows[r][q])
                            /\ StructuredAt(k, r)[1].context = PyStr(sheet.rows[r][a])
                       ELSE StructuredAt(k, r) = <<>>

\* the fallback candidates of sheet k for the cell in data row r under the
\* label at position c
FallbackAt(k, r, c) ==
    SelectSeq(CandidatesOf(k),
              LAMBDA q : /\ ~IsStructured(q)
                         /\ q.row = r - 1
                         /\ q.column = parseCall.parsed.sheets[k].headers[c])

\* the sheet has no question header and no answer header
NoQuestionAnswerHeaders(sheet) ==
    /\ Containing(sheet.headers, QUESTION_WORDS) = {}
    /\ Containing(sheet.headers, ANSWER_WORDS) = {}

\* C16: in a sheet without question/answer headers, a question cell whose
\* neighbour in the next column of the same row is not empty yields one
\* candidate, and its context is that neighbour as a string, whatever the
\* cell below holds.
C16_RightCellIsContext ==
    Parsed =>
        \A k \in 1..Len(parseCall.parsed.sheets) :
            LET sheet == parseCall.parsed.sheets[k]
            IN NoQuestionAnswerHeaders(sheet) =>
                   \A r \in 1..Len(sheet.rows), c \in 1..(Len(sheet.headers) - 1) :
                       (/\ LooksLikeQuestion(PyStr(sheet.rows[r][c]))
                        /\ sheet.rows[r][c + 1] # EmptyCell)
                           => /\ Len(FallbackAt(k, r, c)) = 1
                              /\ FallbackAt(k, r, c)[1].context = PyStr(sheet.rows[r][c + 1])

\* What holds instead: when the label of the question cell is the number n
\* and the row has a cell under the label n + 1 that is neither empty nor
\* the number 0, the context is that cell as a string, whatever the cell
\* below holds.
CellUnderNextLabelIsContext ==
    Parsed =>
        \A k \in 1..Len(parseCall.parsed.sheets) :
            LET sheet == parseCall.parsed.sheets[k]
            IN \A r \in 1..Len(sheet.rows), c \in 1..Len(sheet.headers) :
                   (/\ LooksLikeQuestion(PyStr(sheet.rows[r][c]))
                    /\ sheet.headers[c].isnum
                    /\ InList(sheet.headers, Num(sheet.headers[c].n + 1))
                    /\ CellAt(sheet, r, Num(sheet.headers[c].n + 1)) \notin {EmptyCell, Num(0)})
                       => /\ Len(FallbackAt(k, r, c)) = 1
                          /\ FallbackAt(k, r, c)[1].context
                                 = PyStr(CellAt(sheet, r, Num(sheet.headers[c].n + 1)))

\* the cell of data row r at position c is missing or empty
NothingAt(sheet, r, c) ==
    IF r <= Len(sheet.rows) /\ c <= Len(sheet.headers)
    THEN sheet.rows[r][c] = EmptyCell
    ELSE TRUE

\* C17: a question cell found by the fallback scan with no non-empty cell to
\* its right and none below it yields a candidate whose context is exactly
\* "No answer found", and the context of a fallback candidate is never empty.
C17_NoAnswerFound ==
    Parsed =>
        \A k \in 1..Len(parseCall.parsed.sheets) :
            LET sheet == parseCall.parsed.sheets[k]
            IN \A r \in 1..Len(sheet.rows), c \in 1..Len(sheet.headers) :
                   /\ \A i \in 1..Len(FallbackAt(k, r, c)) :
                          FallbackAt(k, r, c)[i].context # <<>>
                   /\ (/\ LooksLikeQuestion(PyStr(sheet.rows[r][c]))
                       /\ NothingAt(sheet, r, c + 1)
                       /\ NothingAt(sheet, r + 1, c))
                          => /\ FallbackAt(k, r, c) # <<>>
                             /\ \A i \in 1..Len(FallbackAt(k, r, c)) :
                                    FallbackAt(k, r, c)[i].context = NO_ANSWER

\* What holds instead: the context is never empty, and it is "No answer
\* found" when the cell below is missing or empty and the row has no
\* non-empty cell under the label one higher, wherever that label stands.
NoAnswerFoundUnderNextLabel ==
    Parsed =>
        \A k \in 1..Len(parseCall.parsed.sheets) :
            LET sheet == parseCall.parsed.sheets[k]
            IN \A r \in 1..Len(sheet.rows), c \in 1..Len(sheet.headers) :
                   /\ \A i \in 1..Len(FallbackAt(k, r, c)) :
                          FallbackAt(k, r, c)[i].context # <<>>
                   /\ (/\ LooksLikeQuestion(PyStr(sheet.rows[r][c]))
                       /\ NothingAt(sheet, r + 1, c)
                       /\ \/ ~sheet.headers[c].isnum
                          \/ CellAt(sheet, r, Num(sheet.headers[c].n + 1)) = EmptyCell)
                          => /\ Len(FallbackAt(k, r, c)) = 1
                             /\ FallbackAt(k, r, c)[1].context = NO_ANSWER

\* the stringified, trimmed text ends with a question mark
EndsWithQuestionMark(text) == Strip(text) # <<>> /\ Strip(text)[Len(Strip(text))] = "?"

Saved == parseCall.called /\ parseCall.outcome = "returned"

\* the rows the last upload added to tender_questions
SavedQuestions ==
    SubSeq(tender_questions, Len(parseCall.before[4]) + 1, Len(tender_questions))

C20_UnreadableLeavesNoTrace ==
    (parseCall.called /\ ~parseCall.file.ok) =>
        /\ parseCall.parsed.outcome = "raised"
        /\ parseCall.parsed.sheets = <<>>
        /\ parseCall.parsed.questions = <<>>
        /\ parseCall.parsed.structure = <<>>
        /\ parseCall.outcome = "raised"
        /\ Stored = parseCall.before

\* C20 witness: unreadable bytes are uploaded while the object store and the
\* database would have accepted them, after an upload that was stored.
C20_Witness ==
    /\ parseCall.called /\ ~parseCall.file.ok
    /\ ~parseCall.env.uploadFails /\ ~parseCall.env.commitFails
    /\ parseCall.outcome = "raised"
    /\ Len(minio) = 1 /\ Len(tender_documents) = 1 /\ tender_questions # <<>>

\* ---- zero vectors
\* the stand-in model gives the text of entry i a vector of norm 0
ZeroNorm(i) == Encode(EntryText(entries[i]), ModelDim) = ZeroVec(ModelDim)

\* C21: a candidate whose vector has zero norm has similarity 0.0 and is
\* treated like any candidate with that similarity: when the threshold
\* admits 0.0 and the limit leaves room, it is among the results of a
\* ranking that completed, with similarity 0.0.
C21_ZeroNormIsZeroSimilarity ==
    (rankCall.done /\ ~rankCall.failed) =>
        \A i \in 1..Len(entries) :
            (/\ ZeroNorm(i)
             /\ SimGE(Frac(0, 1), rankCall.threshold)
             /\ Len(rankCall.results) < rankCall.limit)
                => \E k \in 1..Len(rankCall.results) :
                       /\ rankCall.results[k].id = entries[i].id
                       /\ SimEQ(rankCall.results[k].similarity, Frac(0, 1))

\* What holds instead: a candidate of zero norm is never returned, whatever
\* the threshold, and every other candidate that reaches the threshold is
\* returned when the limit leaves room.
ZeroNormIsDropped ==
    (rankCall.done /\ ~rankCall.failed) =>
        \A i \in 1..Len(entries) :
            IF ZeroNorm(i)
            THEN \A k \in 1..Len(rankCall.results) :
                     rankCall.results[k].id # entries[i].id
            ELSE (i \in Qualifying /\ Len(rankCall.results) < rankCall.limit)
                     => \E k \in 1..Len(rankCall.results) :
                            rankCall.results[k].id = entries[i].id

\* ---- tag lists
\* C22: a search whose filters hold a list of tags under "tags" returns
\* only entries that carry every tag of the list.
C22_TagsFilterRestricts ==
    (searchCall.done /\ searchCall.response.status = 200) =>
        LET r == searchCall.response.results
            wanted == searchCall.filters.tags
        IN \A k \in 1..Len(r), j \in 1..Len(wanted) :
               InList(entries[r[k]].tags, wanted[j])

\* ---- routes
\* C23: GET /entries/search?query=q is answered by the search operation,
\* with the response POST /entries/search gives for that query, and never
\* as the lookup of an entry whose id is "search".
C23_GetSearchIsASearch ==
    (searchCall.done /\ searchCall.method = "GET") =>
        /\ searchCall.response.status # 404
        /\ searchCall.response =
               SearchResponse(entries, searchCall.query, searchCall.limit, searchCall.offset,
                              searchCall.filters,
                              [outcome |-> searchCall.semantic, results |-> searchCall.similar])

\* What holds instead: POST /entries/search reaches search_knowledge_post,
\* and every GET on one segment, "search" included, is answered by the
\* lookup of an entry.
GetSearchIsALookup ==
    /\ Dispatch(ROUTES, "POST", <<"search">>) = "search_knowledge_post"
    /\ Dispatch(ROUTES, "GET", <<"search">>) = "get_knowledge_entry"
    /\ (searchCall.done /\ searchCall.method = "GET") => searchCall.response = NotFound

\* the rows of knowledge_revisions of entry `id`, oldest first
RevisionsOf(id) == SelectSeq(knowledge_revisions, LAMBDA r : r.knowledge_id = id)

\* every entry has as many revisions as its version says, numbered 1, 2, ...
RevisionsNumbered ==
    \A id \in 1..Len(entries) :
        /\ Len(RevisionsOf(id)) = entries[id].version
        /\ \A k \in 1..Len(RevisionsOf(id)) : RevisionsOf(id)[k].version = k

\* a request leaves the revisions already stored as they are, and the
\* revision that comes with a new entry holds the entry's title and content
RevisionsKept ==
    /\ Len(knowledge_revisions') >= Len(knowledge_revisions)
    /\ SubSeq(knowledge_revisions', 1, Len(knowledge_revisions)) = knowledge_revisions
    /\ \A id \in 1..Len(entries') :
           id > Len(entries) =>
               /\ Len(SelectSeq(knowledge_revisions', LAMBDA r : r.knowledge_id = id)) = 1
               /\ LET first == SelectSeq(knowledge_revisions',
                                         LAMBDA r : r.knowledge_id = id)[1]
                  IN /\ first.version = 1
                     /\ first.title = entries'[id].title
                     /\ first.content = entries'[id].content

\* C24: after an entry is created and n updates are applied one after another
\* it has exactly n+1 revisions with the versions 1..n+1, its version is n+1,
\* and no stored revision is ever modified, so that revision 1 keeps the
\* title and the content the entry was created with.
C24_RevisionsAccumulate == []RevisionsNumbered /\ [][RevisionsKept]_vars

\* an entry created with title "a", then retitled and updated once more:
\* three revisions, the first of which still has the title "a"
TwiceUpdatedEntry ==
    \E id \in 1..Len(entries) :
        /\ entries[id].version = 3
        /\ entries[id].title = <<"b">>
        /\ Len(RevisionsOf(id)) = 3
        /\ RevisionsOf(id)[1].title = <<"a">>
        /\ RevisionsOf(id)[1].content = <<"_">>
        /\ entries[id].content = <<"a">>


\* the row a step added to `table`, if it added one
Added(before, after) ==
    IF Len(after) = Len(before) + 1 /\ SubSeq(after, 1, Len(before)) = before
    THEN <<after[Len(after)]>> ELSE <<>>

\* the rows the three create_* functions added in a step
NewEmbeddingRows ==
    Added(question_embeddings, question_embeddings')
        \o Added(response_embeddings, response_embeddings')
        \o [i \in 1..Len(Added(knowledge_base, knowledge_base')) |->
               [text |-> knowledge_base'[Len(knowledge_base')].title \o <<" ">>
                            \o knowledge_base'[Len(knowledge_base')].content,
                embedding |-> knowledge_base'[Len(knowledge_base')].embedding]]

EmbeddingTablesUnchanged ==
    UNCHANGED <<question_embeddings, response_embeddings, knowledge_base>>

PersistsWhatWasGenerated ==
    /\ genLast'.outcome = "raised" =>
           /\ EmbeddingTablesUnchanged
           /\ createCall'.outcome = "raised"
    /\ ~EmbeddingTablesUnchanged =>
           /\ Len(NewEmbeddingRows) = 1
           /\ genLast'.outcome = "returned"
           /\ NewEmbeddingRows[1].text = genLast'.text
           /\ NewEmbeddingRows[1].embedding = genLast'.vector
           /\ createCall'.outcome = "returned"

\* C25: when generate_embedding raises inside create_question_embedding,
\* create_response_embedding or create_knowledge_base_entry, nothing is
\* stored and the caller gets the failure; a row that is stored holds the
\* vector generate_embedding returned for its text.
C25_NoRecordWithoutEmbedding == [][PersistsWhatWasGenerated]_vars

\* a create_question_embedding that failed after an earlier one had stored
\* its row, and a response row stored with a generated vector
FailedCreateAfterStored ==
    /\ createCall.fn = "create_question_embedding"
    /\ createCall.outcome = "raised"
    /\ Len(question_embeddings) = 1
    /\ Len(response_embeddings) = 1
    /\ response_embeddings[1].embedding = Encode(Preprocess(<<"a">>), model_version)


\* two calls for `text` that have both returned after both missed the cache
Overlapped(p, q, text) ==
    /\ p # q
    /\ gen[p].pc = "returned" /\ gen[q].pc = "returned"
    /\ gen[p].text = text /\ gen[q].text = text
    /\ gen[p].missed /\ gen[q].missed

\* overlapping calls return the same vector and leave it in the cache
OverlapSameVector ==
    \A p \in Callers, q \in Callers, t \in OverlapTexts :
        Overlapped(p, q, t) =>
            /\ gen[p].vector = gen[q].vector
            /\ RedisGet(redis, CacheKey(t), now).present
            /\ JsonLoads(RedisGet(redis, CacheKey(t), now).value) = gen[p].vector

\* C26: when two generate_embedding calls for the same uncached text overlap,
\* both return the same vector, the cache ends with that vector under the
\* text's key, and the model has run at most once for the text within the TTL.
C26_OverlapInvokesModelOnce ==
    \A p \in Callers, q \in Callers, t \in OverlapTexts :
        Overlapped(p, q, t) =>
            /\ gen[p].vector = gen[q].vector
            /\ RedisGet(redis, CacheKey(t), now).present
            /\ JsonLoads(RedisGet(redis, CacheKey(t), now).value) = gen[p].vector
            /\ modelCalls[t] <= 1


RECURSIVE Ancestor(_, _)
Ancestor(id, n) ==
    IF id \notin CategoryIds THEN NULL
    ELSE IF n = 0 THEN id
    ELSE Ancestor(CategoryRow(id).parent_id, n - 1)

\* C28: after any sequence of category creations and updates no category is
\* its own parent or its own ancestor through a chain of parent_id links.
C28_ParentsAcyclic ==
    \A id \in CategoryIds, n \in 1..Len(knowledge_categories) : Ancestor(id, n) # id

\* what update_category does refuse: a category is never its own parent
NoCategoryItsOwnParent ==
    \A id \in CategoryIds : CategoryRow(id).parent_id # id


\* every category_id and every parent_id is unset or names a stored category
ReferencesResolve ==
    /\ \A id \in 1..Len(entries) :
           entries[id].category_id = NULL \/ entries[id].category_id \in CategoryIds
    /\ \A k \in 1..Len(knowledge_categories) :
           \/ knowledge_categories[k].parent_id = NULL
           \/ knowledge_categories[k].parent_id \in CategoryIds

\* a category that goes had neither entries nor child categories
OnlyUnusedCategoriesGo ==
    \A id \in CategoryIds :
        id \notin {knowledge_categories'[k].id : k \in 1..Len(knowledge_categories')} =>
            /\ EntriesOf(id) = <<>>
            /\ ChildrenOf(id) = <<>>

\* C30: after any sequence of entry and category operations every entry's
\* category_id and every category's parent_id is unset or the id of an
\* existing category; a category with entries or child categories is never
\* deleted and an entry is never given a category that does not exist.
C30_ReferencesStayValid == []ReferencesResolve /\ [][OnlyUnusedCategoriesGo]_vars

\* a category has been deleted while an entry sits in a category and a
\* category has a parent
DeletedAmongReferenced ==
    /\ categories_made > Len(knowledge_categories)
    /\ \E id \in 1..Len(entries) : entries[id].category_id \in CategoryIds
    /\ \E k \in 1..Len(knowledge_categories) :
           knowledge_categories[k].parent_id \in CategoryIds


\* C29: after any sequence of uploads and deletions, failing storage calls
\* and database writes included, a document record exists exactly when its
\* file object exists in the bucket: no object without a committed record
\* and no record whose object is gone.
C29_RecordIffObject ==
    /\ \A k \in 1..Len(minio) :
           \E d \in 1..Len(tender_documents) :
               tender_documents[d].storage_path = minio[k].name
    /\ \A d \in 1..Len(tender_documents) :
           \E k \in 1..Len(minio) : minio[k].name = tender_documents[d].storage_path

====
